---- MODULE Spec2Model ----
(***************************************************************************)
(* Ensemble signal detection and trade decision of the trading bot.        *)
(*                                                                         *)
(* The repository holds two versions of the aggregator class EnsembleAI:   *)
(* the full one (src/unnamed/part_002, lines 1-329) and the simplified one *)
(* (src/unnamed/part_001).  Both are modelled; the variable impl says      *)
(* which of them the process has loaded as ./signal/ensemble.  Operators   *)
(* of the simplified version carry the suffix Simplified.                   *)
(*                                                                         *)
(* Numbers.  JavaScript numbers are modelled by integers in fixed point:   *)
(*   prices and volumes of a candle ........ whole units                   *)
(*   weights and time-of-day multipliers ... tenths        (1.2 is 12)     *)
(*   meta-score ............................ exact fraction n/d            *)
(*   ATR ................................... 1/AtrScale    (0.02 is 200)   *)
(*   entry, stop loss, take profit ......... 1/LevelScale  (98 is 98000000)*)
(*   risk/reward ratio ..................... hundredths    (1.80 is 180)   *)
(***************************************************************************)
EXTENDS Integers, Sequences, FiniteSets, TLC

VARIABLES
  impl,             \* which EnsembleAI module is loaded
  config,           \* this.config of the EnsembleAI instance (immutable)
  hour,             \* TradingUtils.getVietnamTime().hours()
  data,             \* the market snapshot of the analysis in progress
  detectorResults,  \* the verdict list handed to analyze
  decision,         \* what analyze returned (or that it raised)
  pc,               \* position of the analysis: idle, fetched, detected, decided
  call,             \* the TradingUtils call in progress: its name and arguments
  returned,         \* what the last TradingUtils call returned
  currentSourceIndex,  \* this.currentSourceIndex of the DataService instance
  sourcesUp,        \* the sources whose fetchTime succeeds at present
  requests,         \* the getActiveSource calls in flight, by caller
  activationKeys,   \* the activationKeys Map of the bot: key -> keyInfo
  subscribedUsers,  \* the subscribedUsers Map of the bot, in insertion order
  isAutoAnalysisRunning,  \* the flag of runAutoAnalysis
  autoRuns,         \* the invocations of runAutoAnalysis, by timer
  broadcasts        \* the broadcastToAllUsers calls, by caller

dataVars == <<currentSourceIndex, sourcesUp, requests>>

botVars == <<activationKeys, subscribedUsers, isAutoAnalysisRunning, autoRuns, broadcasts>>

vars == <<impl, config, hour, data, detectorResults, decision, pc, call, returned,
          dataVars, botVars>>

----------------------------------------------------------------------------
(* Scales and small arithmetic                                             *)

AtrScale == 100 * 100
LevelScale == 1000 * 1000

Abs(x) == IF x < 0 THEN -x ELSE x
Min(a, b) == IF a <= b THEN a ELSE b
Max(a, b) == IF a >= b THEN a ELSE b

\* Math.round(n/d) for d > 0: floor(n/d + 1/2)
RoundDiv(n, d) == (2 * n + d) \div (2 * d)

RECURSIVE ISqrtBin(_, _, _)
ISqrtBin(n, lo, hi) ==
  IF lo >= hi THEN lo
  ELSE LET mid == (lo + hi + 1) \div 2
       IN IF mid * mid <= n THEN ISqrtBin(n, mid, hi) ELSE ISqrtBin(n, lo, mid - 1)

\* floor(Math.sqrt(n)) for 0 <= n < 2^31
ISqrt(n) == ISqrtBin(n, 0, Min(n, 46340))

RECURSIVE SumSeq(_)
SumSeq(s) == IF s = <<>> THEN 0 ELSE Head(s) + SumSeq(Tail(s))

\* Array.prototype.slice(-k)
LastN(s, k) == IF Len(s) <= k THEN s ELSE SubSeq(s, Len(s) - k + 1, Len(s))

\* Array.prototype.slice(0, k)
FirstN(s, k) == IF Len(s) <= k THEN s ELSE SubSeq(s, 1, k)

----------------------------------------------------------------------------
(* Numbers of the runtime: naturals of any size, and IEEE-754 doubles      *)

\* a natural of any size is the sequence of its digits in base Base, lowest
\* first, without leading zero digits; zero is the empty sequence
Base == 32 * 1024
LimbBits == 3 * 5

Limb(a, i) == IF i \in DOMAIN a THEN a[i] ELSE 0

\* a without its leading zero digits
BTrim(a) ==
  LET nonzero == {i \in DOMAIN a : a[i] # 0}
  IN IF nonzero = {} THEN <<>>
     ELSE SubSeq(a, 1, CHOOSE i \in nonzero : \A j \in nonzero : j <= i)

\* 0 <= k < 2^31 as a natural, and back
BFromInt(k) == BTrim(<<k % Base, (k \div Base) % Base, k \div (Base * Base)>>)

BToInt(a) == Limb(a, 1) + Base * Limb(a, 2) + Base * Base * Limb(a, 3)

\* the number whose digit i is s[i] in 0 .. 2 * Base - 2: a carry enters digit i
\* when a digit below it produces one and the digits between pass it on
BNormalize(s) ==
  BTrim([i \in 1..(Len(s) + 1) |->
           (Limb(s, i)
              + (IF \E j \in 1..(i - 1) :
                      s[j] >= Base /\ \A k \in (j + 1)..(i - 1) : s[k] = Base - 1
                 THEN 1 ELSE 0)) % Base])

BAdd(a, b) ==
  BNormalize([i \in 1..(IF Len(a) > Len(b) THEN Len(a) ELSE Len(b)) |->
                Limb(a, i) + Limb(b, i)])

\* a - b for a >= b: digit i borrows when a digit below it does and the digits
\* between pass it on
BSub(a, b) ==
  BTrim([i \in 1..Len(a) |->
           (a[i] - Limb(b, i)
              - (IF \E j \in 1..(i - 1) :
                      a[j] < Limb(b, j) /\ \A k \in (j + 1)..(i - 1) : a[k] = Limb(b, k)
                 THEN 1 ELSE 0)
              + Base) % Base])

\* -1, 0 or 1 as a < b, a = b or a > b
BCmp(a, b) ==
  IF Len(a) < Len(b) THEN -1
  ELSE IF Len(a) > Len(b) THEN 1
  ELSE LET differ == {i \in DOMAIN a : a[i] # b[i]}
       IN IF differ = {} THEN 0
          ELSE LET top == CHOOSE i \in differ : \A j \in differ : j <= i
               IN IF a[top] < b[top] THEN -1 ELSE 1

\* a * k for 0 <= k <= Base
BMulSmall(a, k) ==
  BNormalize([i \in 1..(Len(a) + 1) |->
                ((Limb(a, i) * k) % Base) + ((Limb(a, i - 1) * k) \div Base)])

\* a * Base^q
BShiftLimbs(a, q) == IF a = <<>> THEN <<>> ELSE [i \in 1..q |-> 0] \o a

\* the digit products a[i] * b[c - i] of column c, i = from.., split in low and
\* high part and added up
RECURSIVE ColumnSum(_, _, _, _)
ColumnSum(a, b, c, from) ==
  IF from > Len(a) THEN [lo |-> 0, hi |-> 0]
  ELSE LET rest == ColumnSum(a, b, c, from + 1)
           p == a[from] * Limb(b, c - from)
       IN [lo |-> rest.lo + (p % Base), hi |-> rest.hi + (p \div Base)]

\* a * b for a and b of at most 2^15 digits: the columns of the schoolbook
\* product, the high parts moved up one digit
BMul(a, b) ==
  LET column == [c \in 1..(Len(a) + Len(b) + 1) |->
                   ColumnSum(a, b, c + 1, 1).lo + ColumnSum(a, b, c, 1).hi]
  IN BNormalize([c \in 1..(Len(a) + Len(b) + 1) |->
                   (column[c] % Base) + (Limb(column, c - 1) \div Base)])

\* a * 2^k
BShl(a, k) == BShiftLimbs(BMulSmall(a, 2 ^ (k % LimbBits)), k \div LimbBits)

\* floor(a / 2^k)
BShr(a, k) ==
  LET q == k \div LimbBits
      r == k % LimbBits
      d == SubSeq(a, q + 1, Len(a))
  IN BTrim([i \in 1..Len(d) |->
              (d[i] \div (2 ^ r)) + (Limb(d, i + 1) % (2 ^ r)) * (2 ^ (LimbBits - r))])

\* the number of bits of a digit
IntBitLen(k) ==
  CHOOSE n \in 0..LimbBits : k < 2 ^ n /\ (n = 0 \/ k >= 2 ^ (n - 1))

BBitLen(a) ==
  IF a = <<>> THEN 0 ELSE LimbBits * (Len(a) - 1) + IntBitLen(a[Len(a)])

\* bit j of a, the lowest bit being bit 0
Bit(a, j) == (Limb(a, j \div LimbBits + 1) \div (2 ^ (j % LimbBits))) % 2

BIsOdd(a) == Bit(a, 0) = 1

\* the quotient digit of r by b, from an estimate d that is at most 2 too large
QuotientDigit(r, b, d) ==
  CHOOSE x \in {d - 2, d - 1, d} :
    /\ x >= 0
    /\ BCmp(BMulSmall(b, x), r) <= 0
    /\ BCmp(BMulSmall(b, x + 1), r) > 0

\* long division (Knuth's algorithm D), digit acc.i of a downwards: acc.q and
\* acc.r are the quotient and the remainder of the digits above it by b.  The
\* top digit of b is at least Base / 2, which makes the estimate from the top
\* digits of the remainder at most 2 too large.
RECURSIVE BDivFrom(_, _, _)
BDivFrom(a, b, acc) ==
  IF acc.i = 0 THEN acc
  ELSE LET r2 == BTrim(<<a[acc.i]>> \o acc.r)
           n == Len(b)
           estimate == (Limb(r2, n + 1) * Base + Limb(r2, n)) \div b[n]
           d == QuotientDigit(r2, b, IF estimate < Base THEN estimate ELSE Base - 1)
       IN BDivFrom(a, b, [i |-> acc.i - 1,
                          q |-> BTrim(<<d>> \o acc.q),
                          r |-> BSub(r2, BMulSmall(b, d))])

\* floor(a / b) and a mod b for b > 0; the digits of a that b is longer than
\* go to the remainder at once
BDivMod(a, b) ==
  LET s == LimbBits - IntBitLen(b[Len(b)])
      num == BShl(a, s)
      den == BShl(b, s)
      first == IF Len(num) < Len(den) THEN 0 ELSE Len(num) - Len(den) + 1
      dm == BDivFrom(num, den,
              [i |-> first, q |-> <<>>, r |-> SubSeq(num, first + 1, Len(num))])
  IN [q |-> dm.q, r |-> BShr(dm.r, s)]

\* A non-negative finite double is m * 2^e with m of exactly MantissaBits bits,
\* or zero.  The numbers of this program stay far from the subnormal and the
\* overflow range, so the exponent is unbounded here.
MantissaBits == 50 + 3

DZero == [m |-> <<>>, e |-> 0]

\* the double nearest to n * 2^e, ties to even: the rounding of every
\* arithmetic operation of the language.  Of the bits of n that do not fit,
\* the highest decides, and on a tie the lower ones and the last bit kept.
RoundToDouble(n, e) ==
  LET len == BBitLen(n)
      shift == len - MantissaBits
  IN IF len = 0 THEN DZero
     ELSE IF shift <= 0 THEN [m |-> BShl(n, -shift), e |-> e + shift]
     ELSE LET q == BShr(n, shift)
              up == /\ Bit(n, shift - 1) = 1
                    /\ \/ BIsOdd(q)
                       \/ BShl(BShr(n, shift - 1), shift - 1) # n
              q2 == IF up THEN BAdd(q, <<1>>) ELSE q
          IN IF BBitLen(q2) > MantissaBits
             THEN [m |-> BShr(q2, 1), e |-> e + shift + 1]
             ELSE [m |-> q2, e |-> e + shift]

\* an integer 0 <= k < 2^31 as a double
DFromInt(k) == RoundToDouble(BFromInt(k), 0)

\* a + b
DAdd(a, b) ==
  IF a.m = <<>> THEN b
  ELSE IF b.m = <<>> THEN a
  ELSE LET e0 == IF a.e < b.e THEN a.e ELSE b.e
       IN RoundToDouble(BAdd(BShl(a.m, a.e - e0), BShl(b.m, b.e - e0)), e0)

\* a * b
DMul(a, b) ==
  IF a.m = <<>> \/ b.m = <<>> THEN DZero
  ELSE RoundToDouble(BMul(a.m, b.m), a.e + b.e)

\* a / b for b > 0: the quotient to MantissaBits + 4 bits or more, with a last
\* bit that says whether anything was left over
DDiv(a, b) ==
  IF a.m = <<>> \/ b.m = <<>> THEN DZero
  ELSE LET dm == BDivMod(BShl(a.m, MantissaBits + 4), b.m)
           e == a.e - b.e - (MantissaBits + 4) - 1
       IN IF dm.r = <<>> THEN RoundToDouble(BMulSmall(dm.q, 2), e)
          ELSE RoundToDouble(BAdd(BMulSmall(dm.q, 2), <<1>>), e)

\* -1, 0 or 1 as a < b, a = b or a > b
DCmp(a, b) ==
  IF a.m = <<>> /\ b.m = <<>> THEN 0
  ELSE IF a.m = <<>> THEN -1
  ELSE IF b.m = <<>> THEN 1
  ELSE IF a.e + BBitLen(a.m) < b.e + BBitLen(b.m) THEN -1
  ELSE IF a.e + BBitLen(a.m) > b.e + BBitLen(b.m) THEN 1
  ELSE LET e0 == IF a.e < b.e THEN a.e ELSE b.e
       IN BCmp(BShl(a.m, a.e - e0), BShl(b.m, b.e - e0))

DMin(a, b) == IF DCmp(a, b) <= 0 THEN a ELSE b

\* a decimal literal t/10, such as 1.2: the double nearest to it
DTenths(t) == DDiv(DFromInt(t), DFromInt(10))

\* Math.round(x) for 0 <= x < 2^31: floor(x + 1/2), computed exactly
DMathRound(x) ==
  IF x.m = <<>> THEN 0
  ELSE IF x.e >= 0 THEN BToInt(BShl(x.m, x.e))
  ELSE BToInt(BShr(BAdd(BShl(x.m, 1), BShl(<<1>>, -x.e)), 1 - x.e))

----------------------------------------------------------------------------
(* Strings: the spelling of the strings the code splits and searches       *)

Undefined == "undefined"

Chars(s) ==
  CASE s = "momentum_breakout" ->
         <<"m","o","m","e","n","t","u","m","_","b","r","e","a","k","o","u","t">>
    [] s = "vwap_pullback" ->
         <<"v","w","a","p","_","p","u","l","l","b","a","c","k">>
    [] s = "volatility_squeeze" ->
         <<"v","o","l","a","t","i","l","i","t","y","_","s","q","u","e","e","z","e">>
    [] s = "orderbook_sweep" ->
         <<"o","r","d","e","r","b","o","o","k","_","s","w","e","e","p">>
    [] s = "rsi_momentum" ->
         <<"r","s","i","_","m","o","m","e","n","t","u","m">>
    [] s = "volume_spike" ->
         <<"v","o","l","u","m","e","_","s","p","i","k","e">>
    [] s = "correlation_break" ->
         <<"c","o","r","r","e","l","a","t","i","o","n","_","b","r","e","a","k">>
    [] s = "funding_oi_divergence" ->
         <<"f","u","n","d","i","n","g","_","o","i","_","d","i","v","e","r","g","e","n","c","e">>
    [] s = "momentum" -> <<"m","o","m","e","n","t","u","m">>
    [] s = "breakout" -> <<"b","r","e","a","k","o","u","t">>
    [] s = "volume" -> <<"v","o","l","u","m","e">>
    [] s = "04-10" -> <<"0","4","-","1","0">>
    [] s = "10-16" -> <<"1","0","-","1","6">>
    [] s = "16-20" -> <<"1","6","-","2","0">>
    [] s = "20-23" -> <<"2","0","-","2","3">>
    [] s = "23-04" -> <<"2","3","-","0","4">>
    [] s = "22-06" -> <<"2","2","-","0","6">>
    [] s = "08-20" -> <<"0","8","-","2","0">>

\* position of the first sep in cs, or 0
RECURSIVE IndexOf(_, _, _)
IndexOf(cs, sep, i) ==
  IF i > Len(cs) THEN 0
  ELSE IF cs[i] = sep THEN i ELSE IndexOf(cs, sep, i + 1)

\* String.prototype.split(sep): the list of the parts
RECURSIVE Split(_, _)
Split(cs, sep) ==
  LET k == IndexOf(cs, sep, 1)
  IN IF k = 0 THEN <<cs>>
     ELSE <<SubSeq(cs, 1, k - 1)>> \o Split(SubSeq(cs, k + 1, Len(cs)), sep)

\* String.prototype.includes(sub)
Includes(cs, sub) ==
  \E i \in 1..(Len(cs) - Len(sub) + 1) : SubSeq(cs, i, i + Len(sub) - 1) = sub

Digit(c) ==
  CASE c = "0" -> 0 [] c = "1" -> 1 [] c = "2" -> 2 [] c = "3" -> 3 [] c = "4" -> 4
    [] c = "5" -> 5 [] c = "6" -> 6 [] c = "7" -> 7 [] c = "8" -> 8 [] c = "9" -> 9

\* Number("04") = 4
RECURSIVE ToNumber(_)
ToNumber(cs) ==
  IF cs = <<>> THEN 0
  ELSE 10 * ToNumber(SubSeq(cs, 1, Len(cs) - 1)) + Digit(cs[Len(cs)])

----------------------------------------------------------------------------
(* Candles and TradingUtils                                                *)

Candle(o, h, l, c, v) == [open |-> o, high |-> h, low |-> l, close |-> c, volume |-> v]

\* data[tf] of a snapshot, where an absent timeframe reads as undefined
HasTf(d, tf) == tf \in d.present
\* data[tf] || []
CandlesOr(d, tf) == IF HasTf(d, tf) THEN d.candles[tf] ELSE <<>>

\* the true ranges trValues of calculateATR
TrueRange(candles, i) ==
  Max(candles[i].high - candles[i].low,
      Max(Abs(candles[i].high - candles[i - 1].close),
          Abs(candles[i].low - candles[i - 1].close)))

RECURSIVE WilderSmooth(_, _, _, _)
WilderSmooth(candles, i, atr, period) ==
  IF i > Len(candles) THEN atr
  ELSE WilderSmooth(candles, i + 1,
         RoundDiv(atr * (period - 1) + TrueRange(candles, i) * AtrScale, period),
         period)

\* calculateATR without the smoothing: the mean of the first period true ranges
calculateATRSeedOnly(candles, period) ==
  IF Len(candles) < period + 1 THEN 0
  ELSE RoundDiv(SumSeq([k \in 1..period |-> TrueRange(candles, k + 1)]) * AtrScale,
                period)

\* TradingUtils.calculateATR(candles, period), in 1/AtrScale
calculateATR(candles, period) ==
  IF Len(candles) < period + 1 THEN 0
  ELSE LET seed == RoundDiv(
                     SumSeq([k \in 1..period |-> TrueRange(candles, k + 1)]) * AtrScale,
                     period)
       IN WilderSmooth(candles, period + 2, seed, period)

----------------------------------------------------------------------------
(* EnsembleAI configuration                                                *)

DefaultMinConfidence == 60
DefaultMinDetectorAgreement == 2

\* config.detectorWeights of the full version, in tenths
DefaultDetectorWeights ==
  [n \in {"momentum_breakout", "vwap_pullback", "volatility_squeeze", "orderbook_sweep",
          "funding_oi_divergence", "volume_spike", "correlation_break"} |->
     CASE n = "momentum_breakout" -> 12
       [] n = "vwap_pullback" -> 11
       [] n = "volatility_squeeze" -> 10
       [] n = "orderbook_sweep" -> 9
       [] n = "funding_oi_divergence" -> 8
       [] n = "volume_spike" -> 10
       [] n = "correlation_break" -> 7]

\* config.timeOfDayMultipliers, in insertion order, multipliers in tenths
DefaultTimeOfDayMultipliers ==
  << [range |-> "04-10", multiplier |-> 11],
     [range |-> "10-16", multiplier |-> 10],
     [range |-> "16-20", multiplier |-> 9],
     [range |-> "20-23", multiplier |-> 8],
     [range |-> "23-04", multiplier |-> 3] >>

\* a table passed as config.timeOfDayMultipliers: a range that wraps, a range
\* that does not, and the hours 6, 7, 20, 21 in neither
CustomTimeOfDayMultipliers ==
  << [range |-> "22-06", multiplier |-> 5],
     [range |-> "08-20", multiplier |-> 12] >>

\* new EnsembleAI(config): the fields the caller leaves out take the defaults
EnsembleConfig(minConfidence, minDetectorAgreement, timeOfDayMultipliers) ==
  [minConfidence |-> IF minConfidence = 0 THEN DefaultMinConfidence ELSE minConfidence,
   minDetectorAgreement |->
     IF minDetectorAgreement = 0 THEN DefaultMinDetectorAgreement ELSE minDetectorAgreement,
   detectorWeights |-> DefaultDetectorWeights,
   timeOfDayMultipliers |->
     IF timeOfDayMultipliers = <<>> THEN DefaultTimeOfDayMultipliers
     ELSE timeOfDayMultipliers]

----------------------------------------------------------------------------
(* EnsembleAI, full version: time of day                                   *)

RangeMatchesNoWrap(range, h) ==
  LET parts == Split(Chars(range), "-")
      start == ToNumber(parts[1])
      end == ToNumber(parts[2])
  IN start <= h /\ h < end

\* the two conditions of the loop body of getTimeOfDayMultiplier
RangeMatches(range, h) ==
  LET parts == Split(Chars(range), "-")
      start == ToNumber(parts[1])
      end == ToNumber(parts[2])
  IN \/ (start <= h /\ h < end)
     \/ (start > end /\ (h >= start \/ h < end))

\* index of the first entry of the table whose range matches, or 0
RECURSIVE FirstMatchingRange(_, _, _)
FirstMatchingRange(table, h, i) ==
  IF i > Len(table) THEN 0
  ELSE IF RangeMatches(table[i].range, h) THEN i
       ELSE FirstMatchingRange(table, h, i + 1)

FallbackMultiplier == 10

\* EnsembleAI.getTimeOfDayMultiplier(), in tenths
getTimeOfDayMultiplier(h, table) ==
  LET i == FirstMatchingRange(table, h, 1)
  IN IF i = 0 THEN FallbackMultiplier ELSE table[i].multiplier

----------------------------------------------------------------------------
(* EnsembleAI, full version: agreement and meta-score                      *)

\* .sort(([,a], [,b]) => b - a) of the two entries LONG, SHORT (stable)
SortEntriesDesc(entries) ==
  IF entries[2].count > entries[1].count THEN <<entries[2], entries[1]>> ELSE entries

\* EnsembleAI.calculateDetectorAgreement(detectorResults)
calculateDetectorAgreement(rs) ==
  LET directionalDetectors == {i \in DOMAIN rs : rs[i].direction # "NEUTRAL"}
      directions ==
        [LONG |-> Cardinality({i \in directionalDetectors : rs[i].direction = "LONG"}),
         SHORT |-> Cardinality({i \in directionalDetectors : rs[i].direction = "SHORT"}),
         NEUTRAL |-> 0]
      totalDirectional == Cardinality(directionalDetectors)
      majority == SortEntriesDesc(<< [dir |-> "LONG", count |-> directions.LONG],
                                     [dir |-> "SHORT", count |-> directions.SHORT] >>)[1]
  IN [directions |-> directions,
      totalDirectional |-> totalDirectional,
      majorityDirection |-> majority.dir,
      majorityCount |-> majority.count,
      agreementRatio |-> IF totalDirectional > 0
                         THEN [n |-> majority.count, d |-> totalDirectional]
                         ELSE [n |-> 0, d |-> 1]]

\* this.config.detectorWeights[name] || 1.0
WeightOf(weights, name) ==
  IF name \in DOMAIN weights /\ weights[name] # 0 THEN weights[name] ELSE 10

\* the forEach of calculateMetaScore: weightedSum, totalWeight, detectorFamilyCount
RECURSIVE MetaAccumulate(_, _, _, _, _)
MetaAccumulate(rs, i, majorityDirection, weights, acc) ==
  IF i > Len(rs) \/ acc.raised THEN acc
  ELSE LET d == rs[i]
       IN IF d.direction # "NEUTRAL" /\ d.direction = majorityDirection
          THEN IF d.name = Undefined
               THEN [acc EXCEPT !.raised = TRUE]
               ELSE LET weight == WeightOf(weights, d.name)
                    IN MetaAccumulate(rs, i + 1, majorityDirection, weights,
                         [raised |-> FALSE,
                          weightedSum |-> acc.weightedSum + d.score * weight,
                          totalWeight |-> acc.totalWeight + weight,
                          families |-> acc.families \cup {Split(Chars(d.name), "_")[1]}])
          ELSE MetaAccumulate(rs, i + 1, majorityDirection, weights, acc)

\* Math.min(100, Math.max(0, n/d))
Clamp100(n, d) ==
  IF n < 0 THEN [n |-> 0, d |-> 1]
  ELSE IF n > 100 * d THEN [n |-> 100, d |-> 1]
  ELSE [n |-> n, d |-> d]

\* EnsembleAI.calculateMetaScore(detectorResults, agreement): the fraction n/d,
\* or raised when detector.name.split faults
calculateMetaScore(rs, agreement, h, cfg) ==
  LET acc == MetaAccumulate(rs, 1, agreement.majorityDirection, cfg.detectorWeights,
               [raised |-> FALSE, weightedSum |-> 0, totalWeight |-> 0, families |-> {}])
  IN IF acc.raised THEN [raised |-> TRUE, n |-> 0, d |-> 1]
     ELSE IF acc.totalWeight = 0 THEN [raised |-> FALSE, n |-> 0, d |-> 1]
     ELSE LET confluenceBonus == (Cardinality(acc.families) - 1) * 5
              timeMultiplier == getTimeOfDayMultiplier(h, cfg.timeOfDayMultipliers)
              \* (weightedSum/totalWeight + min(20, bonus)) * timeMultiplier/10
              num == (acc.weightedSum + Min(20, confluenceBonus) * acc.totalWeight)
                       * timeMultiplier
              den == acc.totalWeight * 10
              c == Clamp100(num, den)
          IN [raised |-> FALSE, n |-> c.n, d |-> c.d]

----------------------------------------------------------------------------
(* EnsembleAI, simplified version: agreement and meta-score                *)

\* EnsembleAI.calculateDetectorAgreement(detectorResults), simplified version
calculateDetectorAgreementSimplified(rs) ==
  LET counted == {i \in DOMAIN rs : rs[i].direction # "NEUTRAL" /\ rs[i].score > 40}
      directions ==
        [LONG |-> Cardinality({i \in counted : rs[i].direction = "LONG"}),
         SHORT |-> Cardinality({i \in counted : rs[i].direction = "SHORT"}),
         NEUTRAL |-> 0]
      majority == SortEntriesDesc(<< [dir |-> "LONG", count |-> directions.LONG],
                                     [dir |-> "SHORT", count |-> directions.SHORT] >>)[1]
  IN [directions |-> directions,
      majorityDirection |-> majority.dir,
      majorityCount |-> majority.count]

\* the forEach of the simplified calculateMetaScore: totalScore (tenths), count
RECURSIVE MetaAccumulateSimplified(_, _, _, _)
MetaAccumulateSimplified(rs, i, majorityDirection, acc) ==
  IF i > Len(rs) THEN acc
  ELSE LET d == rs[i]
       IN IF d.direction = majorityDirection /\ d.score > 40
          THEN MetaAccumulateSimplified(rs, i + 1, majorityDirection,
                 [totalScore |-> acc.totalScore
                                   + d.score * (IF d.weight = 0 THEN 10 ELSE d.weight),
                  count |-> acc.count + 1])
          ELSE MetaAccumulateSimplified(rs, i + 1, majorityDirection, acc)

\* EnsembleAI.calculateMetaScore(detectorResults, agreement), simplified version
calculateMetaScoreSimplified(rs, agreement, cfg) ==
  IF agreement.majorityCount < cfg.minDetectorAgreement
  THEN [raised |-> FALSE, n |-> 0, d |-> 1]
  ELSE LET acc == MetaAccumulateSimplified(rs, 1, agreement.majorityDirection,
                    [totalScore |-> 0, count |-> 0])
       IN IF acc.count = 0 THEN [raised |-> FALSE, n |-> 0, d |-> 1]
          ELSE LET agreementBonus == (agreement.majorityCount - 1) * 10
                   num == acc.totalScore + Min(20, agreementBonus) * 10 * acc.count
                   den == 10 * acc.count
               IN IF num > 100 * den THEN [raised |-> FALSE, n |-> 100, d |-> 1]
                  ELSE [raised |-> FALSE, n |-> num, d |-> den]

----------------------------------------------------------------------------
(* The meta-score as the runtime computes it, in double arithmetic         *)

\* one counted verdict of the full calculateMetaScore:
\* weightedSum += detector.score * weight; totalWeight += weight
AddWeighted(acc, score, weight) ==
  [weightedSum |-> DAdd(acc.weightedSum, DMul(DFromInt(score), weight)),
   totalWeight |-> DAdd(acc.totalWeight, weight)]

\* the forEach of the full calculateMetaScore, the weights being the doubles
\* their literals denote
RECURSIVE MetaAccumulateDouble(_, _, _, _, _)
MetaAccumulateDouble(rs, i, majorityDirection, weights, acc) ==
  IF i > Len(rs) THEN acc
  ELSE MetaAccumulateDouble(rs, i + 1, majorityDirection, weights,
         IF rs[i].direction # "NEUTRAL" /\ rs[i].direction = majorityDirection
         THEN AddWeighted(acc, rs[i].score, DTenths(WeightOf(weights, rs[i].name)))
         ELSE acc)

\* the rest of the full calculateMetaScore: the average, the confluence bonus,
\* the time-of-day multiplier and the clamp
MetaFromSums(acc, confluenceBonus, timeMultiplier) ==
  IF acc.totalWeight = DZero THEN DZero
  ELSE DMin(DFromInt(100),
            DMul(DAdd(DDiv(acc.weightedSum, acc.totalWeight),
                      DFromInt(Min(20, confluenceBonus))),
                 timeMultiplier))

\* EnsembleAI.calculateMetaScore(detectorResults, agreement) of the full version,
\* on a list it does not fault on: the double it returns
calculateMetaScoreDouble(rs, agreement, h, cfg) ==
  MetaFromSums(
    MetaAccumulateDouble(rs, 1, agreement.majorityDirection, cfg.detectorWeights,
      [weightedSum |-> DZero, totalWeight |-> DZero]),
    (Cardinality(MetaAccumulate(rs, 1, agreement.majorityDirection, cfg.detectorWeights,
                   [raised |-> FALSE, weightedSum |-> 0, totalWeight |-> 0,
                    families |-> {}]).families) - 1) * 5,
    DTenths(getTimeOfDayMultiplier(h, cfg.timeOfDayMultipliers)))

\* the forEach of the simplified calculateMetaScore:
\* totalScore += detector.score * (detector.weight || 1.0)
RECURSIVE TotalScoreDouble(_, _, _, _)
TotalScoreDouble(rs, i, majorityDirection, acc) ==
  IF i > Len(rs) THEN acc
  ELSE TotalScoreDouble(rs, i + 1, majorityDirection,
         IF rs[i].direction = majorityDirection /\ rs[i].score > 40
         THEN DAdd(acc, DMul(DFromInt(rs[i].score),
                             DTenths(IF rs[i].weight = 0 THEN 10 ELSE rs[i].weight)))
         ELSE acc)

\* the rest of the simplified calculateMetaScore: the average over the count,
\* the agreement bonus and the cap
MetaFromTotal(totalScore, count, agreementBonus) ==
  IF count = 0 THEN DZero
  ELSE DMin(DFromInt(100),
            DAdd(DDiv(totalScore, DFromInt(count)), DFromInt(Min(20, agreementBonus))))

\* EnsembleAI.calculateMetaScore(detectorResults, agreement) of the simplified
\* version: the double it returns
calculateMetaScoreSimplifiedDouble(rs, agreement, cfg) ==
  IF agreement.majorityCount < cfg.minDetectorAgreement THEN DZero
  ELSE MetaFromTotal(
         TotalScoreDouble(rs, 1, agreement.majorityDirection, DZero),
         MetaAccumulateSimplified(rs, 1, agreement.majorityDirection,
           [totalScore |-> 0, count |-> 0]).count,
         (agreement.majorityCount - 1) * 10)

\* metaScore >= minConfidence.  The double differs from the fraction n/d, the
\* value of the same expression in exact arithmetic, by less than 2^-40 (a
\* dozen roundings of relative size 2^-53 of values below 2^10), and n/d, d
\* being below 2^13, differs from a whole number it is not equal to by more
\* than 2^-13: the roundings decide only when n/d is the threshold itself.
ReachesConfidence(exact, double, minConfidence) ==
  IF exact.n = minConfidence * exact.d
  THEN DCmp(double, DFromInt(minConfidence)) >= 0
  ELSE exact.n > minConfidence * exact.d

\* Math.round(metaScore): likewise the roundings decide only when n/d lies
\* halfway between two whole numbers
RoundedScore(exact, double) ==
  IF (2 * exact.n) % exact.d = 0 /\ ((2 * exact.n) \div exact.d) % 2 = 1
  THEN DMathRound(double)
  ELSE RoundDiv(exact.n, exact.d)

----------------------------------------------------------------------------
(* EnsembleAI, full version: levels                                        *)

AtrPeriod == 14

\* (a / r).toFixed(2) for a >= 0, r >= 0, in hundredths; 0/0 is NaN, a/0 Infinity
RatioToFixed2(a, r) ==
  IF r = 0 THEN [kind |-> IF a = 0 THEN "NaN" ELSE "Infinity", value |-> 0]
  ELSE LET q == a \div r
           r1 == a % r
           d1 == (r1 * 10) \div r
           r2 == (r1 * 10) % r
           d2 == (r2 * 10) \div r
           r3 == (r2 * 10) % r
           d3 == (r3 * 10) \div r
       IN [kind |-> "number",
           value |-> 100 * q + 10 * d1 + d2 + (IF d3 >= 5 THEN 1 ELSE 0)]

\* the default of calculateAverageATR: 0.02
DefaultATR == (2 * AtrScale) \div 100

\* EnsembleAI.calculateAverageATR(data), in 1/AtrScale
calculateAverageATR(d) ==
  LET timeframes == <<"15m", "1h", "4h">>
      used == SelectSeq(timeframes,
                LAMBDA tf : HasTf(d, tf) /\ Len(d.candles[tf]) > 14)
      totalATR == SumSeq([k \in 1..Len(used) |-> calculateATR(d.candles[used[k]], AtrPeriod)])
      count == Len(used)
  IN IF count > 0 THEN RoundDiv(totalATR, count) ELSE DefaultATR

\* .sort((a, b) => b.score - a.score), stable
RECURSIVE InsertByScore(_, _)
InsertByScore(sorted, d) ==
  IF sorted = <<>> THEN <<d>>
  ELSE IF Head(sorted).score >= d.score
       THEN <<Head(sorted)>> \o InsertByScore(Tail(sorted), d)
       ELSE <<d>> \o sorted

RECURSIVE SortByScoreDesc(_)
SortByScoreDesc(s) ==
  IF s = <<>> THEN <<>>
  ELSE InsertByScore(SortByScoreDesc(SubSeq(s, 1, Len(s) - 1)), s[Len(s)])

\* d.name.includes('momentum') || d.name.includes('breakout')
IsMomentumName(name) ==
  \/ Includes(Chars(name), Chars("momentum"))
  \/ Includes(Chars(name), Chars("breakout"))

\* d.name.includes('momentum') || d.name.includes('volume')
IsMomentumOrVolumeName(name) ==
  \/ Includes(Chars(name), Chars("momentum"))
  \/ Includes(Chars(name), Chars("volume"))

\* directionalDetectors.find(...): index of the first momentum detector, 0 when
\* there is none, raised when a name read on the way is undefined
RECURSIVE FindMomentumDetector(_, _)
FindMomentumDetector(sorted, i) ==
  IF i > Len(sorted) THEN [raised |-> FALSE, index |-> 0]
  ELSE IF sorted[i].name = Undefined THEN [raised |-> TRUE, index |-> 0]
  ELSE IF IsMomentumName(sorted[i].name) THEN [raised |-> FALSE, index |-> i]
  ELSE FindMomentumDetector(sorted, i + 1)

\* directionalDetectors.some(d => d.score > 70 && (...momentum... || ...volume...))
RECURSIVE SomeStrongMomentum(_, _)
SomeStrongMomentum(sorted, i) ==
  IF i > Len(sorted) THEN [raised |-> FALSE, found |-> FALSE]
  ELSE IF sorted[i].score > 70
       THEN IF sorted[i].name = Undefined THEN [raised |-> TRUE, found |-> FALSE]
            ELSE IF IsMomentumOrVolumeName(sorted[i].name)
                 THEN [raised |-> FALSE, found |-> TRUE]
                 ELSE SomeStrongMomentum(sorted, i + 1)
       ELSE SomeStrongMomentum(sorted, i + 1)

\* EnsembleAI.generateLevels(direction, currentPrice, data, detectorResults)
generateLevels(direction, currentPrice, d, rs) ==
  LET atr == calculateAverageATR(d)
      \* volatilityAdjustedATR * 0.8, in 1/LevelScale
      slDistance == (atr * currentPrice * (LevelScale \div AtrScale) * 8) \div 10
      directionalDetectors ==
        SortByScoreDesc(SelectSeq(rs, LAMBDA v : v.direction = direction /\ v.score > 50))
      found == FindMomentumDetector(directionalDetectors, 1)
      price == currentPrice * LevelScale
      entryPrice ==
        IF found.index = 0 THEN price
        ELSE LET metadata == directionalDetectors[found.index].metadata
             IN IF direction = "LONG" /\ metadata.recentHigh # 0
                THEN Min(price, metadata.recentHigh * 1001 * (LevelScale \div 1000))
                ELSE IF direction = "SHORT" /\ metadata.recentLow # 0
                THEN Max(price, metadata.recentLow * 999 * (LevelScale \div 1000))
                ELSE price
      stopLoss == IF direction = "LONG" THEN entryPrice - slDistance
                  ELSE entryPrice + slDistance
      risk == Abs(entryPrice - stopLoss)
      minTPDistance == (risk * 3) \div 2
      takeProfit == IF direction = "LONG" THEN entryPrice + minTPDistance
                    ELSE entryPrice - minTPDistance
      strong == SomeStrongMomentum(directionalDetectors, 1)
      finalTakeProfit ==
        IF strong.found
        THEN IF direction = "LONG" THEN (takeProfit * 11) \div 10
             ELSE (takeProfit * 9) \div 10
        ELSE takeProfit
  IN [raised |-> found.raised \/ strong.raised,
      entry |-> entryPrice,
      sl |-> stopLoss,
      tp |-> finalTakeProfit,
      rr |-> RatioToFixed2(Abs(finalTakeProfit - entryPrice), risk)]

----------------------------------------------------------------------------
(* EnsembleAI, simplified version: levels                                  *)

\* parseFloat(x.toFixed(4)) of a value held in 1/LevelScale
ToFixed4(x) == RoundDiv(x, LevelScale \div AtrScale) * (LevelScale \div AtrScale)

\* EnsembleAI.generateDefaultLevels(direction, currentPrice)
generateDefaultLevels(direction, currentPrice) ==
  LET price == currentPrice * LevelScale
      \* riskPercent = 0.02
      stopLoss == IF direction = "LONG" THEN currentPrice * 98 * (LevelScale \div 100)
                  ELSE currentPrice * 102 * (LevelScale \div 100)
      risk == Abs(price - stopLoss)
      takeProfit == IF direction = "LONG" THEN price + (risk * 18) \div 10
                    ELSE price - (risk * 18) \div 10
  IN [raised |-> FALSE,
      entry |-> ToFixed4(price),
      sl |-> ToFixed4(stopLoss),
      tp |-> ToFixed4(takeProfit),
      rr |-> RatioToFixed2(Abs(takeProfit - price), risk)]

\* EnsembleAI.generateLevels(direction, currentPrice, data), simplified version
generateLevelsSimplified(direction, currentPrice, d) ==
  LET candles15m == CandlesOr(d, "15m")
  IN IF Len(candles15m) < 10 THEN generateDefaultLevels(direction, currentPrice)
     ELSE LET atr == calculateATR(candles15m, AtrPeriod)
              slDistance == (atr * currentPrice * (LevelScale \div AtrScale) * 8) \div 10
              entryPrice == currentPrice * LevelScale
              stopLoss == IF direction = "LONG" THEN entryPrice - slDistance
                          ELSE entryPrice + slDistance
              risk == Abs(entryPrice - stopLoss)
              takeProfit == IF direction = "LONG" THEN entryPrice + (risk * 18) \div 10
                            ELSE entryPrice - (risk * 18) \div 10
          IN [raised |-> FALSE,
              entry |-> ToFixed4(entryPrice),
              sl |-> ToFixed4(stopLoss),
              tp |-> ToFixed4(takeProfit),
              rr |-> RatioToFixed2(Abs(takeProfit - entryPrice), risk)]

----------------------------------------------------------------------------
(* EnsembleAI.analyze                                                      *)

\* data[tf]?.[data[tf].length - 1]?.close, with undefined read as 0 (both falsy)
LastClose(d, tf) ==
  LET candles == CandlesOr(d, tf)
  IN IF Len(candles) = 0 THEN 0 ELSE candles[Len(candles)].close

\* data.ticker?.last, with undefined read as 0
TickerLast(d) == IF "ticker" \in d.present THEN d.ticker.last ELSE 0

NoLevels == [entry |-> 0, sl |-> 0, tp |-> 0, rr |-> [kind |-> "none", value |-> 0]]

Raised(what) ==
  [status |-> "raised", error |-> what, direction |-> "none", confidence |-> 0,
   reason |-> "", hasLevels |-> FALSE, levels |-> NoLevels, explain |-> [keys |-> {}]]

NoDecision ==
  [status |-> "none", error |-> "", direction |-> "none", confidence |-> 0,
   reason |-> "", hasLevels |-> FALSE, levels |-> NoLevels, explain |-> [keys |-> {}]]

\* Array.from(new Set(detectorResults.map(d => d.name.split('_')[0])))
RECURSIVE DetectorFamilies(_, _, _)
DetectorFamilies(rs, i, acc) ==
  IF i > Len(rs) THEN acc
  ELSE LET family == Split(Chars(rs[i].name), "_")[1]
       IN DetectorFamilies(rs, i + 1,
            IF \E k \in DOMAIN acc : acc[k] = family THEN acc ELSE Append(acc, family))

\* EnsembleAI.analyze(detectorResults, data) of the full version, from the
\* agreement on: double is the Number its calculateMetaScore call returned
analyzeScored(rs, d, h, cfg, double) ==
  LET agreement == calculateDetectorAgreement(rs)
      metaScore == calculateMetaScore(rs, agreement, h, cfg)
      hasMinimumAgreement == agreement.majorityCount >= cfg.minDetectorAgreement
      hasMinimumConfidence == ReachesConfidence(metaScore, double, cfg.minConfidence)
      hasValidDirection == agreement.majorityDirection # "NEUTRAL"
      timeMultiplier == getTimeOfDayMultiplier(h, cfg.timeOfDayMultipliers)
  IN IF metaScore.raised THEN Raised("TypeError: name.split in calculateMetaScore")
     ELSE IF hasMinimumAgreement /\ hasMinimumConfidence /\ hasValidDirection
     THEN LET currentPrice == IF LastClose(d, "15m") # 0 THEN LastClose(d, "15m")
                              ELSE LastClose(d, "1h")
              levels == generateLevels(agreement.majorityDirection, currentPrice, d, rs)
          IN IF levels.raised THEN Raised("TypeError: name.includes in generateLevels")
             ELSE IF \E i \in DOMAIN rs : rs[i].name = Undefined
             THEN Raised("TypeError: name.split in analyze")
             ELSE [status |-> "returned", error |-> "",
                   direction |-> agreement.majorityDirection,
                   confidence |-> RoundedScore(metaScore, double),
                   reason |-> "Ensemble signal",
                   hasLevels |-> TRUE,
                   levels |-> [entry |-> levels.entry, sl |-> levels.sl,
                               tp |-> levels.tp, rr |-> levels.rr],
                   explain |->
                     [keys |-> {"detectorResults", "agreement", "metaScore",
                                "timeMultiplier", "requirementsMet", "detectorFamilies"},
                      detectorResults |-> rs,
                      agreement |-> agreement,
                      metaScore |-> [n |-> metaScore.n, d |-> metaScore.d],
                      timeMultiplier |-> timeMultiplier,
                      requirementsMet |-> TRUE,
                      failureReasons |-> <<>>,
                      detectorFamilies |-> DetectorFamilies(rs, 1, <<>>)]]
     ELSE [status |-> "returned", error |-> "",
           direction |-> "NO_TRADE",
           confidence |-> 0,
           reason |-> "No trading signal generated",
           hasLevels |-> FALSE,
           levels |-> NoLevels,
           explain |->
             [keys |-> {"detectorResults", "agreement", "metaScore",
                        "timeMultiplier", "requirementsMet", "failureReasons"},
              detectorResults |-> rs,
              agreement |-> agreement,
              metaScore |-> [n |-> metaScore.n, d |-> metaScore.d],
              timeMultiplier |-> timeMultiplier,
              requirementsMet |-> FALSE,
              failureReasons |->
                (IF ~hasMinimumAgreement THEN <<"Insufficient detector agreement">>
                 ELSE <<>>)
                \o (IF ~hasMinimumConfidence THEN <<"Low confidence">> ELSE <<>>)
                \o (IF ~hasValidDirection THEN <<"No clear directional bias">> ELSE <<>>),
              detectorFamilies |-> <<>>]]

\* EnsembleAI.analyze(detectorResults, data) of the full version
analyze(rs, d, h, cfg) ==
  analyzeScored(rs, d, h, cfg,
                calculateMetaScoreDouble(rs, calculateDetectorAgreement(rs), h, cfg))

\* EnsembleAI.analyze(detectorResults, data) of the simplified version, from
\* the agreement on: double is the Number its calculateMetaScore call returned
analyzeSimplifiedScored(rs, d, cfg, double) ==
  LET agreement == calculateDetectorAgreementSimplified(rs)
      metaScore == calculateMetaScoreSimplified(rs, agreement, cfg)
      currentPrice == IF LastClose(d, "15m") # 0 THEN LastClose(d, "15m")
                      ELSE TickerLast(d)
  IN IF /\ ReachesConfidence(metaScore, double, cfg.minConfidence)
        /\ agreement.majorityCount >= cfg.minDetectorAgreement
     THEN LET levels == generateLevelsSimplified(agreement.majorityDirection,
                                                 currentPrice, d)
          IN [status |-> "returned", error |-> "",
              direction |-> agreement.majorityDirection,
              confidence |-> RoundedScore(metaScore, double),
              reason |-> "detectors agree",
              hasLevels |-> TRUE,
              levels |-> [entry |-> levels.entry, sl |-> levels.sl,
                          tp |-> levels.tp, rr |-> levels.rr],
              explain |-> [keys |-> {"detectorResults", "agreement", "metaScore"},
                           detectorResults |-> rs,
                           agreement |-> agreement,
                           metaScore |-> [n |-> metaScore.n, d |-> metaScore.d]]]
     ELSE [status |-> "returned", error |-> "",
           direction |-> "NO_TRADE",
           confidence |-> RoundedScore(metaScore, double),
           reason |-> "Insufficient agreement",
           hasLevels |-> FALSE,
           levels |-> NoLevels,
           explain |-> [keys |-> {"detectorResults", "agreement", "metaScore"},
                        detectorResults |-> rs,
                        agreement |-> agreement,
                        metaScore |-> [n |-> metaScore.n, d |-> metaScore.d]]]

\* EnsembleAI.analyze(detectorResults, data) of the simplified version
analyzeSimplified(rs, d, cfg) ==
  analyzeSimplifiedScored(rs, d, cfg,
    calculateMetaScoreSimplifiedDouble(rs, calculateDetectorAgreementSimplified(rs), cfg))

----------------------------------------------------------------------------
(* TradingUtils: z-score, VWAP, Bollinger bands, RSI                       *)

RECURSIVE SumSquares(_)
SumSquares(s) == IF s = <<>> THEN 0 ELSE Head(s) * Head(s) + SumSquares(Tail(s))

\* n^2 times the population variance of s: n * sum(x^2) - sum(x)^2
ScaledVariance(s) == Len(s) * SumSquares(s) - SumSeq(s) * SumSeq(s)

ZScale == 10 * 100

\* TradingUtils.calculateZScore(value, array).  The value is num/sqrt(rad), kept
\* exactly for the comparisons; fp is its value in 1/ZScale.
calculateZScore(value, array) ==
  IF Len(array) = 0 \/ ScaledVariance(array) = 0 THEN [num |-> 0, rad |-> 1, fp |-> 0]
  ELSE LET num == Len(array) * value - SumSeq(array)
           rad == ScaledVariance(array)
       IN [num |-> num, rad |-> rad,
           fp |-> (num * ZScale * 10) \div ISqrt(rad * 100)]

\* z > a/b for a, b > 0
ZGreater(z, a, b) == z.num > 0 /\ z.num * z.num * b * b > a * a * z.rad

Closes(candles) == [i \in DOMAIN candles |-> candles[i].close]
Highs(candles) == [i \in DOMAIN candles |-> candles[i].high]
Volumes(candles) == [i \in DOMAIN candles |-> candles[i].volume]

RECURSIVE MaxSeq(_)
MaxSeq(s) == IF Len(s) = 1 THEN s[1] ELSE Max(Head(s), MaxSeq(Tail(s)))
RECURSIVE MinSeq(_)
MinSeq(s) == IF Len(s) = 1 THEN s[1] ELSE Min(Head(s), MinSeq(Tail(s)))

\* TradingUtils.calculateVWAP(candles) as the fraction tpv/(3 * vol): the typical
\* price is (high + low + close)/3
calculateVWAP(candles) ==
  [tpv |-> SumSeq([i \in DOMAIN candles |->
                     (candles[i].high + candles[i].low + candles[i].close)
                       * candles[i].volume]),
   vol |-> SumSeq(Volumes(candles))]

\* TradingUtils.calculateBollingerBands(closes, period, 2): the last window's
\* middle = sum/period and standard deviation sqrt(var)/period, kept exactly
calculateBollingerBands(closes, period) ==
  IF Len(closes) < period THEN [isNull |-> TRUE, sum |-> 0, var |-> 0]
  ELSE LET window == LastN(closes, period)
       IN [isNull |-> FALSE, sum |-> SumSeq(window), var |-> ScaledVariance(window)]

WidthScale == 100 * 100

\* (bb.upper - bb.lower) / bb.middle = 4 * sd / middle, in 1/WidthScale
BandWidth(bb) == (4 * ISqrt(bb.var * 100) * (WidthScale \div 10)) \div bb.sum

\* the average gain and loss of the RSI (Wilder), in 1/AtrScale
RECURSIVE WilderGainLoss(_, _, _, _)
WilderGainLoss(closes, i, acc, period) ==
  IF i > Len(closes) THEN acc
  ELSE LET change == closes[i] - closes[i - 1]
           gain == IF change > 0 THEN change ELSE 0
           loss == IF change < 0 THEN -change ELSE 0
       IN WilderGainLoss(closes, i + 1,
            [gain |-> RoundDiv(acc.gain * (period - 1) + gain * AtrScale, period),
             loss |-> RoundDiv(acc.loss * (period - 1) + loss * AtrScale, period)],
            period)

\* RSI.calculate({values, period}) of technicalindicators: the last value, in
\* hundredths
LibraryRSI(closes, period) ==
  LET changes == [k \in 1..period |-> closes[k + 1] - closes[k]]
      gains == [k \in 1..period |-> IF changes[k] > 0 THEN changes[k] ELSE 0]
      losses == [k \in 1..period |-> IF changes[k] < 0 THEN -changes[k] ELSE 0]
      seed == [gain |-> RoundDiv(SumSeq(gains) * AtrScale, period),
               loss |-> RoundDiv(SumSeq(losses) * AtrScale, period)]
      avg == WilderGainLoss(closes, period + 2, seed, period)
  IN IF avg.loss = 0 THEN 10000
     ELSE IF avg.gain = 0 THEN 0
     ELSE RatioToFixed2(100 * avg.gain, avg.gain + avg.loss).value

\* TradingUtils.calculateRSI(closes, period), in hundredths
calculateRSI(closes, period) ==
  IF Len(closes) < period + 1 THEN 5000
  ELSE LET rsi == LibraryRSI(closes, period)
       IN IF rsi = 0 THEN 5000 ELSE rsi

----------------------------------------------------------------------------
(* SignalDetectors                                                         *)

NoMetadata == [recentHigh |-> 0, recentLow |-> 0]

\* a verdict as a detector returns it; runAllDetectors adds the weight
Verdict(name, score, direction, reason, hasMetadata, metadata) ==
  [name |-> name, score |-> score, direction |-> direction, reason |-> reason,
   hasMetadata |-> hasMetadata, metadata |-> metadata, weight |-> 0]

\* return { score: 0, direction: 'NEUTRAL', reason }: no name, no metadata
Unnamed(reason) == Verdict(Undefined, 0, "NEUTRAL", reason, FALSE, NoMetadata)

ScoreScale == 10 * 100

\* Math.round(Math.min(100, x)) for x in 1/ScoreScale
RoundScore(x) == RoundDiv(Min(100 * ScoreScale, x), ScoreScale)

\* SignalDetectors.momentumBreakoutDetector(data, {})
momentumBreakoutDetector(d) ==
  LET candles15m == CandlesOr(d, "15m")
      breakoutPeriod == 20
  IN IF Len(candles15m) < breakoutPeriod + 5 THEN Unnamed("Insufficient data")
     ELSE
       LET closes15m == Closes(candles15m)
           volumes15m == Volumes(candles15m)
           highs15m == Highs(candles15m)
           currentClose == closes15m[Len(closes15m)]
           currentHigh == highs15m[Len(highs15m)]
           recentHigh == MaxSeq(LastN(highs15m, breakoutPeriod))
           recentLow == MinSeq(LastN(highs15m, breakoutPeriod))
           volumeSum == SumSeq(LastN(volumes15m, breakoutPeriod))
           currentVolume == volumes15m[Len(volumes15m)]
           volumeZScore == calculateZScore(currentVolume, LastN(volumes15m, breakoutPeriod))
           \* currentHigh >= recentHigh * (1 + 1/100)
           isBreakout == 100 * currentHigh >= 101 * recentHigh
           \* volumeZScore > 1.0 && currentVolume > volumeMA * 1.5
           hasVolumeSpike == /\ ZGreater(volumeZScore, 1, 1)
                             /\ 2 * breakoutPeriod * currentVolume > 3 * volumeSum
           breakoutStrength == ((currentHigh - recentHigh) * 100 * ScoreScale) \div recentHigh
           volumeStrength == (Min(volumeZScore.fp, 3 * ZScale) * 100) \div 3
           breakdownStrength == ((recentLow - currentClose) * 100 * ScoreScale) \div recentLow
           metadata == [recentHigh |-> recentHigh, recentLow |-> recentLow]
       IN IF isBreakout /\ hasVolumeSpike
          THEN Verdict("momentum_breakout",
                 RoundScore(((breakoutStrength * 6 + volumeStrength * 4) * 2) \div 10),
                 "LONG", "Breakout", TRUE, metadata)
          ELSE IF 100 * currentClose < 99 * recentLow /\ hasVolumeSpike
          THEN Verdict("momentum_breakout", RoundScore((breakdownStrength * 15) \div 10),
                 "SHORT", "Breakdown", TRUE, metadata)
          ELSE Verdict("momentum_breakout", 0, "NEUTRAL", "No breakout detected",
                 TRUE, metadata)

\* vwapPullbackDetector with a mirrored SHORT case: below VWAP, near it, a
\* bearish last bar on a volume uptick
vwapPullbackDetectorSymmetric(d) ==
  LET candles1m == CandlesOr(d, "1m")
      candles15m == CandlesOr(d, "15m")
  IN IF Len(candles1m) < 50 \/ Len(candles15m) < 20 THEN Unnamed("Insufficient data")
     ELSE
       LET currentCandle1m == candles1m[Len(candles1m)]
           vwap == calculateVWAP(LastN(candles1m, 50))
           p3 == currentCandle1m.close * 3 * vwap.vol
           isNearVWAP == /\ vwap.vol > 0 /\ vwap.tpv > 0
                         /\ Abs(p3 - vwap.tpv) * 1000 <= 2 * vwap.tpv
           recentVolumes == Volumes(LastN(candles1m, 10))
           hasVolumeUptick == currentCandle1m.volume * Len(recentVolumes) * 10
                                > SumSeq(recentVolumes) * 12
           isBullishReversal ==
             /\ currentCandle1m.close > currentCandle1m.open
             /\ 2 * currentCandle1m.close > currentCandle1m.high + currentCandle1m.low
           isBearishReversal ==
             /\ currentCandle1m.close < currentCandle1m.open
             /\ 2 * currentCandle1m.close < currentCandle1m.high + currentCandle1m.low
       IN IF p3 > vwap.tpv /\ isNearVWAP /\ isBullishReversal /\ hasVolumeUptick
          THEN Verdict("vwap_pullback", 50, "LONG", "VWAP pullback", TRUE, NoMetadata)
          ELSE IF p3 < vwap.tpv /\ isNearVWAP /\ isBearishReversal /\ hasVolumeUptick
          THEN Verdict("vwap_pullback", 50, "SHORT", "VWAP pullback", TRUE, NoMetadata)
          ELSE Verdict("vwap_pullback", 0, "NEUTRAL", "No VWAP pullback setup",
                 TRUE, NoMetadata)

\* SignalDetectors.vwapPullbackDetector(data, {})
vwapPullbackDetector(d) ==
  LET candles1m == CandlesOr(d, "1m")
      candles15m == CandlesOr(d, "15m")
  IN IF Len(candles1m) < 50 \/ Len(candles15m) < 20 THEN Unnamed("Insufficient data")
     ELSE
       LET currentCandle1m == candles1m[Len(candles1m)]
           vwap == calculateVWAP(LastN(candles1m, 50))
           currentPrice == currentCandle1m.close
           \* price and vwap over the common denominator 3 * vol; vwap is 0 when vol is 0
           p3 == currentPrice * 3 * vwap.vol
           isAboveVWAP == IF vwap.vol > 0 THEN p3 > vwap.tpv ELSE currentPrice > 0
           \* Math.abs(currentPrice - vwap) / vwap <= 0.002
           isNearVWAP == /\ vwap.vol > 0 /\ vwap.tpv > 0
                         /\ Abs(p3 - vwap.tpv) * 1000 <= 2 * vwap.tpv
           isBullishReversal ==
             /\ currentCandle1m.close > currentCandle1m.open
             /\ 2 * currentCandle1m.close > currentCandle1m.high + currentCandle1m.low
           recentVolumes == Volumes(LastN(candles1m, 10))
           currentVolume == currentCandle1m.volume
           \* currentVolume > avgVolume * 1.2
           hasVolumeUptick == currentVolume * Len(recentVolumes) * 10
                                > SumSeq(recentVolumes) * 12
           vwapDistance == (Abs(p3 - vwap.tpv) * 100 * ScoreScale) \div vwap.tpv
           volumeRatio == (currentVolume * Len(recentVolumes) * ScoreScale)
                            \div SumSeq(recentVolumes)
           volumeStrength == (Min(volumeRatio, 3 * ScoreScale) * 100) \div 3
           reversalStrength ==
             ((currentCandle1m.close - currentCandle1m.open) * 10000 * ScoreScale)
               \div currentCandle1m.open
       IN IF isAboveVWAP /\ isNearVWAP /\ isBullishReversal /\ hasVolumeUptick
          THEN Verdict("vwap_pullback",
                 RoundScore(vwapDistance * 20 + (volumeStrength * 3) \div 10
                            + reversalStrength * 2),
                 "LONG", "VWAP pullback", TRUE, NoMetadata)
          ELSE Verdict("vwap_pullback", 0, "NEUTRAL", "No VWAP pullback setup",
                 TRUE, NoMetadata)

\* the widths of the windows closes15m.slice(i - bbPeriod, i), i = bbPeriod..length-1
HistoricalWidths(closes15m, bbPeriod) ==
  [k \in 1..(Len(closes15m) - bbPeriod) |->
     BandWidth(calculateBollingerBands(SubSeq(closes15m, k, k + bbPeriod - 1), bbPeriod))]

RECURSIVE InsertAscending(_, _)
InsertAscending(sorted, x) ==
  IF sorted = <<>> THEN <<x>>
  ELSE IF Head(sorted) <= x THEN <<Head(sorted)>> \o InsertAscending(Tail(sorted), x)
       ELSE <<x>> \o sorted

\* [...historicalWidths].sort((a, b) => a - b)
RECURSIVE SortAscending(_)
SortAscending(s) ==
  IF s = <<>> THEN <<>>
  ELSE InsertAscending(SortAscending(SubSeq(s, 1, Len(s) - 1)), s[Len(s)])

\* SignalDetectors.volatilitySqueezeDetector(data, {})
volatilitySqueezeDetector(d) ==
  LET candles15m == CandlesOr(d, "15m")
      bbPeriod == 20
      squeezePercentile == 10
  IN IF Len(candles15m) < bbPeriod + 10 THEN Unnamed("Insufficient data")
     ELSE
       LET closes15m == Closes(candles15m)
           bb == calculateBollingerBands(closes15m, bbPeriod)
           bbWidth == BandWidth(bb)
           sortedWidths == SortAscending(HistoricalWidths(closes15m, bbPeriod))
           \* zero-based index of the percentile
           percentileIndex == (Len(sortedWidths) * squeezePercentile) \div 100
           lowPercentileWidth == IF percentileIndex + 1 <= Len(sortedWidths)
                                 THEN sortedWidths[percentileIndex + 1] ELSE 0
           isSqueeze == bbWidth <= lowPercentileWidth
           currentPrice == closes15m[Len(closes15m)]
           \* price - middle against 2 standard deviations, times the period
           offset == bbPeriod * currentPrice - bb.sum
           isAboveUpper == offset > 0 /\ offset * offset > 4 * bb.var
           isBelowLower == offset < 0 /\ offset * offset > 4 * bb.var
           volumes == Volumes(candles15m)
           currentVolume == volumes[Len(volumes)]
           volumeZScore == calculateZScore(currentVolume, LastN(volumes, 20))
           squeezeStrength == ((lowPercentileWidth - bbWidth) * 100 * ScoreScale)
                                \div lowPercentileWidth
           volumeStrength == (Min(volumeZScore.fp, 3 * ZScale) * 100) \div 3
       IN IF bb.isNull THEN Unnamed("Cannot calculate Bollinger Bands")
          ELSE IF isSqueeze /\ (isAboveUpper \/ isBelowLower) /\ ZGreater(volumeZScore, 1, 2)
          THEN Verdict("volatility_squeeze",
                 RoundScore((squeezeStrength * 5 + volumeStrength * 5) \div 10),
                 IF isAboveUpper THEN "LONG" ELSE "SHORT",
                 "Volatility squeeze breakout", TRUE, NoMetadata)
          ELSE Verdict("volatility_squeeze", 0, "NEUTRAL", "No volatility squeeze setup",
                 TRUE, NoMetadata)

\* bids.slice(0, 3).reduce((sum, [price, volume]) => sum + volume, 0)
TopVolume(levels) == SumSeq([i \in DOMAIN FirstN(levels, 3) |-> levels[i][2]])

\* orderbookSweepDetector summing every level of a side, not the top three
orderbookSweepDetectorAllLevels(d) ==
  IF "orderbook" \notin d.present THEN Unnamed("No orderbook data")
  ELSE LET bids == d.orderbook.bids
           asks == d.orderbook.asks
       IN IF Len(bids) = 0 \/ Len(asks) = 0 THEN Unnamed("Invalid orderbook data")
          ELSE
            LET bidVolume == SumSeq([i \in DOMAIN bids |-> bids[i][2]])
                askVolume == SumSeq([i \in DOMAIN asks |-> asks[i][2]])
                total == bidVolume + askVolume
                strength == (Abs(bidVolume - askVolume) * 150 * ScoreScale) \div total
            IN IF total > 0 /\ 10 * (bidVolume - askVolume) > 3 * total
               THEN Verdict("orderbook_sweep", RoundScore(strength), "LONG",
                      "Strong buy pressure", TRUE, NoMetadata)
               ELSE IF total > 0 /\ 10 * (bidVolume - askVolume) < -3 * total
               THEN Verdict("orderbook_sweep", RoundScore(strength), "SHORT",
                      "Strong sell pressure", TRUE, NoMetadata)
               ELSE Verdict("orderbook_sweep", 0, "NEUTRAL",
                      "No significant orderbook imbalance", TRUE, NoMetadata)

\* SignalDetectors.orderbookSweepDetector(data, {})
orderbookSweepDetector(d) ==
  IF "orderbook" \notin d.present THEN Unnamed("No orderbook data")
  ELSE LET bids == d.orderbook.bids
           asks == d.orderbook.asks
       IN IF Len(bids) = 0 \/ Len(asks) = 0 THEN Unnamed("Invalid orderbook data")
          ELSE IF ~d.orderbook.levelsAreArrays
          \* destructuring [price, volume] of a level that is not iterable throws
          THEN Verdict("orderbook_sweep", 0, "NEUTRAL", "Error", FALSE, NoMetadata)
          ELSE
            LET bidVolume == TopVolume(bids)
                askVolume == TopVolume(asks)
                total == bidVolume + askVolume
                \* |imbalance| * 150
                strength == (Abs(bidVolume - askVolume) * 150 * ScoreScale) \div total
            IN IF total > 0 /\ 10 * (bidVolume - askVolume) > 3 * total
               THEN Verdict("orderbook_sweep", RoundScore(strength), "LONG",
                      "Strong buy pressure", TRUE, NoMetadata)
               ELSE IF total > 0 /\ 10 * (bidVolume - askVolume) < -3 * total
               THEN Verdict("orderbook_sweep", RoundScore(strength), "SHORT",
                      "Strong sell pressure", TRUE, NoMetadata)
               ELSE Verdict("orderbook_sweep", 0, "NEUTRAL",
                      "No significant orderbook imbalance", TRUE, NoMetadata)

\* volumeSpikeDetector past its length check
VolumeSpikeVerdict(candles15m) ==
  LET volumes == Volumes(candles15m)
      closes == Closes(candles15m)
      currentVolume == volumes[Len(volumes)]
      currentClose == closes[Len(closes)]
      prevClose == closes[Len(closes) - 1]
      volumeZScore == calculateZScore(currentVolume, LastN(volumes, 20))
      \* |priceChange| in percent
      priceChange == (Abs(currentClose - prevClose) * 100 * ScoreScale) \div prevClose
      isBullishCandle == currentClose > prevClose
      isBearishCandle == currentClose < prevClose
      strength == (volumeZScore.fp * 20 * ScoreScale) \div ZScale + priceChange * 10
  IN IF ZGreater(volumeZScore, 2, 1) /\ isBullishCandle
     THEN Verdict("volume_spike", RoundScore(strength), "LONG",
            "Bullish volume spike", TRUE, NoMetadata)
     ELSE IF ZGreater(volumeZScore, 2, 1) /\ isBearishCandle
     THEN Verdict("volume_spike", RoundScore(strength), "SHORT",
            "Bearish volume spike", TRUE, NoMetadata)
     ELSE IF ZGreater(volumeZScore, 2, 1)
     THEN Verdict("volume_spike", 0, "NEUTRAL", "Volume spike but no clear direction",
            TRUE, NoMetadata)
     ELSE Verdict("volume_spike", 0, "NEUTRAL", "No significant volume spike",
            TRUE, NoMetadata)

\* volumeSpikeDetector reading a close equal to the previous one as bullish
volumeSpikeDetectorBullishOnEqualClose(d) ==
  LET candles15m == CandlesOr(d, "15m")
      closes == Closes(candles15m)
      verdict == VolumeSpikeVerdict(candles15m)
  IN IF Len(candles15m) < 20 THEN Unnamed("Insufficient data")
     ELSE IF verdict.reason = "Volume spike but no clear direction"
             /\ closes[Len(closes)] = closes[Len(closes) - 1]
     THEN Verdict("volume_spike", RoundScore(0), "LONG", "Bullish volume spike", TRUE,
                  NoMetadata)
     ELSE verdict

\* volumeSpikeDetector asking for two bars only
volumeSpikeDetectorShortHistory(d) ==
  IF Len(CandlesOr(d, "15m")) < 2 THEN Unnamed("Insufficient data")
  ELSE VolumeSpikeVerdict(CandlesOr(d, "15m"))

\* SignalDetectors.volumeSpikeDetector(data, {})
volumeSpikeDetector(d) ==
  IF Len(CandlesOr(d, "15m")) < 20 THEN Unnamed("Insufficient data")
  ELSE VolumeSpikeVerdict(CandlesOr(d, "15m"))

\* rsiMomentumDetector deciding on the 15-minute RSI alone
rsiMomentumDetectorOn15mOnly(d) ==
  LET candles15m == CandlesOr(d, "15m")
      candles1h == CandlesOr(d, "1h")
  IN IF Len(candles15m) < 15 \/ Len(candles1h) < 15 THEN Unnamed("Insufficient data")
     ELSE
       LET rsi15m == calculateRSI(Closes(candles15m), 14)
       IN IF rsi15m < 3000
          THEN Verdict("rsi_momentum", RoundScore(((3000 - rsi15m) * 3 * ScoreScale) \div 100),
                 "LONG", "Oversold", TRUE, NoMetadata)
          ELSE IF rsi15m > 7000
          THEN Verdict("rsi_momentum", RoundScore(((rsi15m - 7000) * 3 * ScoreScale) \div 100),
                 "SHORT", "Overbought", TRUE, NoMetadata)
          ELSE Verdict("rsi_momentum", 0, "NEUTRAL", "RSI in neutral zone", TRUE, NoMetadata)

\* SignalDetectors.rsiMomentumDetector(data, {})
rsiMomentumDetector(d) ==
  LET candles15m == CandlesOr(d, "15m")
      candles1h == CandlesOr(d, "1h")
      rsiOverbought == 7000
      rsiOversold == 3000
  IN IF Len(candles15m) < 15 \/ Len(candles1h) < 15 THEN Unnamed("Insufficient data")
     ELSE
       LET rsi15m == calculateRSI(Closes(candles15m), 14)
           rsi1h == calculateRSI(Closes(candles1h), 14)
       IN IF rsi15m < rsiOversold /\ rsi1h < rsiOversold
          THEN Verdict("rsi_momentum",
                 RoundScore(((rsiOversold - rsi15m) * 3 * ScoreScale) \div 100),
                 "LONG", "Oversold", TRUE, NoMetadata)
          ELSE IF rsi15m > rsiOverbought /\ rsi1h > rsiOverbought
          THEN Verdict("rsi_momentum",
                 RoundScore(((rsi15m - rsiOverbought) * 3 * ScoreScale) \div 100),
                 "SHORT", "Overbought", TRUE, NoMetadata)
          ELSE Verdict("rsi_momentum", 0, "NEUTRAL", "RSI in neutral zone", TRUE, NoMetadata)

ChangeScale == 10 * 100

\* priceChanges of correlationBreakDetector, in 1/ChangeScale
PriceChanges(candles1h) ==
  [k \in 1..(Len(candles1h) - 1) |->
     ((candles1h[k + 1].close - candles1h[k].close) * ChangeScale) \div candles1h[k].close]

\* SignalDetectors.correlationBreakDetector(data, {}); coin is Math.random() > 0.5
correlationBreakDetector(d, coin) ==
  LET candles1h == CandlesOr(d, "1h")
  IN IF Len(candles1h) < 10
     THEN Unnamed("Insufficient data for correlation analysis")
     ELSE
       LET priceChanges == PriceChanges(candles1h)
           recent == LastN(priceChanges, 5)
           \* Math.std(arr) = sqrt(ScaledVariance(arr)) / arr.length
           recentVar == ScaledVariance(recent)
           historicalVar == ScaledVariance(priceChanges)
           nr == Len(recent)
           nh == Len(priceChanges)
           \* recentVolatility > historicalVolatility * 2
           isSpike == recentVar * nh * nh > 4 * historicalVar * nr * nr
           \* (recentVolatility / historicalVolatility) * 25
           strength == (((25 * nh * ISqrt(recentVar * 100)) \div nr) * ScoreScale)
                         \div ISqrt(historicalVar * 100)
       IN IF isSpike
          THEN Verdict("correlation_break", RoundScore(strength),
                 IF coin THEN "LONG" ELSE "SHORT", "High volatility spike", TRUE, NoMetadata)
          ELSE Verdict("correlation_break", 0, "NEUTRAL", "Normal volatility",
                 TRUE, NoMetadata)

\* the weights of the detectors array of runAllDetectors, in tenths
RegisteredWeights == <<12, 11, 10, 9, 10, 10, 7>>

\* detector.fn(data, config) for the detectors array in its order
DetectorVerdicts(d, coin) ==
  << momentumBreakoutDetector(d),
     vwapPullbackDetector(d),
     volatilitySqueezeDetector(d),
     orderbookSweepDetector(d),
     rsiMomentumDetector(d),
     volumeSpikeDetector(d),
     correlationBreakDetector(d, coin) >>

\* a verdict a detector built in its catch block
IsFaultVerdict(v) == v.reason = "Error"

\* runAllDetectors giving up at the first detector that faults
runAllDetectorsStoppingAtFault(d, coin) ==
  LET results == DetectorVerdicts(d, coin)
      faulty == {i \in DOMAIN results : IsFaultVerdict(results[i])}
      n == IF faulty = {} THEN Len(results)
           ELSE (CHOOSE i \in faulty : \A j \in faulty : i <= j) - 1
  IN [i \in 1..n |-> [results[i] EXCEPT !.weight = RegisteredWeights[i]]]

\* SignalDetectors.runAllDetectors(data, {}): every detector catches its own
\* faults, so the catch of the loop is never entered
runAllDetectors(d, coin) ==
  LET results == DetectorVerdicts(d, coin)
  IN [i \in 1..Len(results) |-> [results[i] EXCEPT !.weight = RegisteredWeights[i]]]

----------------------------------------------------------------------------
(* Market snapshots                                                        *)

Timeframes == {"1m", "15m", "1h", "4h"}

\* price level of the generated series
BasePrice == 20
\* price level of the short six-bar series
RoundPrice == 100
BaseVolume == 10

\* a quiet bar whose close alternates between price and price + 1
QuietBar(price, i) ==
  Candle(price + ((i + 1) % 2), price + 2, price - 1, price + (i % 2), BaseVolume)

\* n bars of 15-minute history ending in the given last bar
Series15m(n, price, pattern) ==
  [i \in 1..n |->
     IF i < n \/ pattern = "quiet" THEN QuietBar(price, i)
     ELSE IF pattern = "up"
     THEN Candle(price, price + 4, price - 1, price + 4, 10 * BaseVolume)
     ELSE Candle(price, price + 2, price - 4, price - 4, 10 * BaseVolume)]

\* n bars of 1-hour history; "tail" is still and then swings in its last bars
Series1h(n, price, pattern) ==
  [i \in 1..n |->
     IF pattern = "tail"
     THEN IF i <= n - 5 THEN Candle(price, price + 1, price - 1, price, BaseVolume)
          ELSE Candle(price, price + 3, price - 3, price + 2 * ((i % 2) * 2 - 1),
                      BaseVolume)
     ELSE QuietBar(price, i)]

\* fifty 1-minute bars at the price with a last bar that turns up from below it
Series1m(n, price) ==
  [i \in 1..n |->
     IF i < n THEN Candle(price, price, price, price, BaseVolume)
     ELSE Candle(price - 1, price, price - 1, price, 2 * BaseVolume)]

Orderbook(kind) ==
  CASE kind = "buy" -> [bids |-> << <<BasePrice - 1, 60>>, <<BasePrice - 2, 30>> >>,
                        asks |-> << <<BasePrice + 1, 10>> >>, levelsAreArrays |-> TRUE]
    [] kind = "sell" -> [bids |-> << <<BasePrice - 1, 10>> >>,
                         asks |-> << <<BasePrice + 1, 60>>, <<BasePrice + 2, 30>> >>,
                         levelsAreArrays |-> TRUE]
    [] kind = "objects" -> [bids |-> << <<BasePrice - 1, 60>> >>,
                            asks |-> << <<BasePrice + 1, 10>> >>,
                            levelsAreArrays |-> FALSE]
    [] OTHER -> [bids |-> <<>>, asks |-> <<>>, levelsAreArrays |-> TRUE]

Snapshot(present, c1m, c15m, c1h, c4h, orderbook, last) ==
  [present |-> present,
   candles |-> [tf \in Timeframes |->
                  CASE tf = "1m" -> c1m [] tf = "15m" -> c15m
                    [] tf = "1h" -> c1h [] OTHER -> c4h],
   orderbook |-> orderbook,
   ticker |-> [last |-> last]]

NoSnapshot == Snapshot({}, <<>>, <<>>, <<>>, <<>>, Orderbook("empty"), 0)

AllKeys == Timeframes \cup {"orderbook", "ticker"}

Lengths15m == {0, 6, 20, 30}
Lengths1h == {0, 15, 25}
Lengths1m == {0, 50}
LastBars == {"quiet", "up", "down"}

\* what DataService.fetchMultiTimeframeData returns: every timeframe is an
\* array (empty when its fetch failed), the order book and the ticker are there
FetchedSnapshots ==
  { Snapshot(AllKeys,
             Series1m(n1m, BasePrice),
             Series15m(n15m, IF n15m = 6 /\ n1h = 0 THEN RoundPrice ELSE BasePrice, last),
             Series1h(n1h, BasePrice, IF n1h = 25 THEN "tail" ELSE "quiet"),
             <<>>,
             Orderbook(kind),
             IF n15m = 6 /\ n1h = 0 THEN RoundPrice ELSE BasePrice) :
      n1m \in Lengths1m, n15m \in Lengths15m, n1h \in Lengths1h,
      last \in LastBars, kind \in {"empty", "buy", "sell"} }

\* snapshots a caller of the exported runAllDetectors builds itself: keys left
\* out, and order book levels that are objects instead of [price, volume] pairs
CallerSnapshots ==
  { NoSnapshot,
    Snapshot({"15m"}, <<>>, Series15m(6, RoundPrice, "quiet"), <<>>, <<>>,
             Orderbook("empty"), 0),
    Snapshot({"15m", "1h"}, <<>>, Series15m(20, BasePrice, "up"),
             Series1h(15, BasePrice, "quiet"), <<>>, Orderbook("empty"), 0) }
  \cup
  { Snapshot(AllKeys, Series1m(n1m, BasePrice), Series15m(n15m, BasePrice, last),
             Series1h(15, BasePrice, "quiet"), <<>>, Orderbook("objects"), BasePrice) :
      n1m \in Lengths1m, n15m \in {20, 30}, last \in {"quiet", "up"} }

----------------------------------------------------------------------------
(* Verdict lists handed to analyze directly                                *)

MaxVerdicts == 3

SubmittedNames == {"momentum_breakout", "volume_spike", "orderbook_sweep"}

\* the weight runAllDetectors registers for a detector name, in tenths
RegisteredWeight(name) ==
  CASE name = "momentum_breakout" -> RegisteredWeights[1]
    [] name = "vwap_pullback" -> RegisteredWeights[2]
    [] name = "volatility_squeeze" -> RegisteredWeights[3]
    [] name = "orderbook_sweep" -> RegisteredWeights[4]
    [] name = "rsi_momentum" -> RegisteredWeights[5]
    [] name = "volume_spike" -> RegisteredWeights[6]
    [] name = "correlation_break" -> RegisteredWeights[7]
    [] OTHER -> 10

Weighted(v) == [v EXCEPT !.weight = RegisteredWeight(v.name)]

\* verdicts of the shapes the detectors return: a directional verdict is named
\* and scored, a neutral one has score 0 and may lack the name
SubmittedVerdicts ==
  { Weighted(Verdict(name, ds[2], ds[1], "signal", TRUE, NoMetadata)) :
      name \in SubmittedNames,
      ds \in {<<"LONG", 40>>, <<"LONG", 41>>, <<"LONG", 55>>, <<"LONG", 90>>,
              <<"SHORT", 41>>, <<"SHORT", 90>>} }
  \cup { Weighted(Verdict("rsi_momentum", 0, "NEUTRAL", "RSI in neutral zone", TRUE,
                          NoMetadata)),
         Weighted(Unnamed("Insufficient data")) }

VerdictLists == UNION { [1..n -> SubmittedVerdicts] : n \in 1..MaxVerdicts }

\* the snapshots that accompany a submitted list: short and long 15m history
SubmittedSnapshots ==
  { Snapshot(AllKeys, <<>>, Series15m(6, RoundPrice, "quiet"), <<>>, <<>>,
             Orderbook("empty"), RoundPrice),
    Snapshot(AllKeys, <<>>, Series15m(20, BasePrice, "quiet"), <<>>, <<>>,
             Orderbook("empty"), BasePrice) }

Hours == 0..23
\* one hour of the ranges 23-04, 10-16 and 16-20 of the default table
SampleHours == {2, 12, 17}

----------------------------------------------------------------------------
(* The analysis cycle                                                      *)

\* this.sources = [this.binance, this.bybit], by index
NumSources == 2
Sources == 0..(NumSources - 1)

\* the callers that may have a getActiveSource call in flight at once: a chat
\* command and the periodic analysis
MaxCallers == 2
Callers == 1..MaxCallers

\* no call in flight for a caller
NoRequest == [pc |-> "idle", i |-> 0, sourceIndex |-> 0]

\* no TradingUtils call made on its own, and nothing returned
NoCall == [fn |-> "none"]
NoReturn == [kind |-> "none"]

\* the 16-character strings generateKey can return, here two of them
KeySpace == {"KEYa", "KEYb"}

\* activationKeys.get(key) is undefined
NoKey == [exists |-> FALSE, type |-> "none", expired |-> FALSE, used |-> FALSE, usedBy |-> 0]

\* the timers that invoke runAutoAnalysis: the interval and the start-up timeout
Invocations == {"startup", "interval"}

\* an invocation of runAutoAnalysis that has not started
IdleRun == [pc |-> "idle", coin |-> 0, analyzedCount |-> 0]

\* the calls of broadcastToAllUsers that may be under way at once: the daily
\* greeting, which is not awaited, and a signal
Broadcasts == {"greeting", "signal"}

\* no broadcastToAllUsers call in progress for a caller
IdleBroadcast ==
  [pc |-> "idle", next |-> 0, chatId |-> 0, retryCount |-> 0, sent |-> FALSE,
   successCount |-> 0, failCount |-> 0, visited |-> 0, attempts |-> <<>>]

Init ==
  /\ activationKeys = [k \in KeySpace |-> NoKey]
  /\ subscribedUsers = <<>>
  /\ isAutoAnalysisRunning = FALSE
  /\ autoRuns = [i \in Invocations |-> IdleRun]
  /\ broadcasts = [b \in Broadcasts |-> IdleBroadcast]
  /\ impl \in {"full", "simplified"}
  /\ config \in {EnsembleConfig(0, 0, <<>>), EnsembleConfig(0, 0, CustomTimeOfDayMultipliers)}
  /\ hour = 0
  /\ data = NoSnapshot
  /\ detectorResults = <<>>
  /\ decision = NoDecision
  /\ pc = "idle"
  /\ call = NoCall
  /\ returned = NoReturn
  /\ currentSourceIndex = 0
  /\ sourcesUp = Sources
  /\ requests = [c \in Callers |-> NoRequest]

\* analyzeSymbol: const data = await DataService.fetchMultiTimeframeData(symbol)
FetchSnapshot ==
  /\ pc = "idle"
  /\ \E d \in FetchedSnapshots : data' = d
  /\ pc' = "fetched"
  /\ UNCHANGED <<botVars, impl, config, hour, detectorResults, decision, call, returned, dataVars>>

\* a caller of runAllDetectors passing data it built itself
CallWithSnapshot ==
  /\ pc = "idle"
  /\ \E d \in CallerSnapshots : data' = d
  /\ pc' = "fetched"
  /\ UNCHANGED <<botVars, impl, config, hour, detectorResults, decision, call, returned, dataVars>>

\* analyzeSymbol: detectorResults = await SignalDetectors.runAllDetectors(data, {})
RunAllDetectors ==
  /\ pc = "fetched"
  /\ \E coin \in BOOLEAN : detectorResults' = runAllDetectors(data, coin)
  /\ pc' = "detected"
  /\ UNCHANGED <<botVars, impl, config, hour, data, decision, call, returned, dataVars>>

\* a caller of analyze passing a verdict list it built itself
SubmitVerdicts ==
  /\ pc = "idle"
  /\ \E rs \in VerdictLists, d \in SubmittedSnapshots :
       /\ detectorResults' = rs
       /\ data' = d
  /\ pc' = "detected"
  /\ UNCHANGED <<botVars, impl, config, hour, decision, call, returned, dataVars>>

\* ensemble.analyze(detectorResults, data) when getVietnamTime reads the hour h
AnalyzeAt(h) ==
  /\ pc = "detected"
  /\ hour' = h
  /\ decision' = IF impl = "full" THEN analyze(detectorResults, data, h, config)
                 ELSE analyzeSimplified(detectorResults, data, config)
  /\ pc' = "decided"
  /\ UNCHANGED <<botVars, impl, config, data, detectorResults, call, returned, dataVars>>

Analyze == \E h \in Hours : AnalyzeAt(h)

AnalyzeSubmitted == \E h \in SampleHours : AnalyzeAt(h)

\* the next analysis starts from nothing
Reset ==
  /\ pc = "decided"
  /\ pc' = "idle"
  /\ data' = NoSnapshot
  /\ detectorResults' = <<>>
  /\ decision' = NoDecision
  /\ hour' = 0
  /\ UNCHANGED <<botVars, impl, config, call, returned, dataVars>>

Next == FetchSnapshot \/ CallWithSnapshot \/ RunAllDetectors \/ Analyze \/ Reset

Spec == Init /\ [][Next]_vars

\* the aggregator under its default configuration
InitAgg == Init /\ config = EnsembleConfig(0, 0, <<>>)

NextAgg == SubmitVerdicts \/ AnalyzeSubmitted \/ Reset

SpecAgg == InitAgg /\ [][NextAgg]_vars

----------------------------------------------------------------------------
(* Time-of-day multiplier                                                  *)

\* the hours a range string stands for: start, end
RangeBounds(range) ==
  CASE range = "04-10" -> <<4, 10>>
    [] range = "10-16" -> <<10, 16>>
    [] range = "16-20" -> <<16, 20>>
    [] range = "20-23" -> <<20, 23>>
    [] range = "23-04" -> <<23, 4>>
    [] range = "22-06" -> <<22, 6>>
    [] range = "08-20" -> <<8, 20>>

\* h lies in the range, a range with start > end wrapping around midnight
InRange(range, h) ==
  LET r == RangeBounds(range)
  IN IF r[1] <= r[2] THEN r[1] <= h /\ h < r[2] ELSE h >= r[1] \/ h < r[2]

\* the multiplier of the first range of the table containing h; 1.0 if none does
ExpectedMultiplier(table, h) ==
  LET containing == {i \in DOMAIN table : InRange(table[i].range, h)}
  IN IF containing = {} THEN 10
     ELSE table[CHOOSE i \in containing : \A j \in containing : i <= j].multiplier

\* C5: for every hour h in 0..23 getTimeOfDayMultiplier returns the multiplier
\* of the configured range containing h, ranges with start > end wrapping around
\* midnight; under the default table the hours 23, 0, 1, 2, 3 give 0.3 and no
\* hour falls through to the fallback 1.0.  The multiplier the full analyze
\* reports is the one of the hour it ran at.
C5_TimeOfDayMultiplier ==
  /\ \A h \in Hours :
       /\ getTimeOfDayMultiplier(h, config.timeOfDayMultipliers)
            = ExpectedMultiplier(config.timeOfDayMultipliers, h)
       /\ config.timeOfDayMultipliers = DefaultTimeOfDayMultipliers
            => /\ h \in {23, 0, 1, 2, 3}
                    => getTimeOfDayMultiplier(h, config.timeOfDayMultipliers) = 3
               /\ \E i \in DOMAIN config.timeOfDayMultipliers :
                    InRange(config.timeOfDayMultipliers[i].range, h)
               /\ FirstMatchingRange(config.timeOfDayMultipliers, h, 1) # 0
  /\ (pc = "decided" /\ impl = "full" /\ decision.status = "returned")
       => decision.explain.timeMultiplier
            = ExpectedMultiplier(config.timeOfDayMultipliers, hour)

\* the full analyze ran at hour 2, inside the wrapping range 23-04
C5_Witness ==
  /\ pc = "decided" /\ impl = "full" /\ hour = 2
  /\ config.timeOfDayMultipliers = DefaultTimeOfDayMultipliers
  /\ decision.status = "returned"
  /\ decision.explain.timeMultiplier = 3

----------------------------------------------------------------------------
(* Agreement, meta-score and the decision                                  *)

\* the agreement and the meta-score of the list under analysis, as the running
\* version of the aggregator computes them
AgreementNow ==
  IF impl = "full" THEN calculateDetectorAgreement(detectorResults)
  ELSE calculateDetectorAgreementSimplified(detectorResults)

MetaScoreNow ==
  IF impl = "full" THEN calculateMetaScore(detectorResults, AgreementNow, hour, config)
  ELSE calculateMetaScoreSimplified(detectorResults, AgreementNow, config)

IsTrade == decision.status = "returned" /\ decision.direction \in {"LONG", "SHORT"}

\* C1: when the majority count is below minDetectorAgreement, calculateMetaScore
\* returns 0 and analyze returns direction NO_TRADE.
C1_BelowAgreementScoresZero ==
  (pc = "decided" /\ AgreementNow.majorityCount < config.minDetectorAgreement)
    => /\ ~MetaScoreNow.raised
       /\ MetaScoreNow.n = 0
       /\ decision.status = "returned"
       /\ decision.direction = "NO_TRADE"

\* C2: analyze returns a trade exactly when the majority direction is not
\* NEUTRAL, the majority count reaches minDetectorAgreement and the meta-score
\* reaches minConfidence; a trade has the majority direction, the rounded
\* meta-score as confidence and levels; anything else is NO_TRADE.
C2_TradeIffRequirementsMet ==
  pc = "decided"
    => LET met == /\ AgreementNow.majorityDirection # "NEUTRAL"
                  /\ AgreementNow.majorityCount >= config.minDetectorAgreement
                  /\ ~MetaScoreNow.raised
                  /\ MetaScoreNow.n >= config.minConfidence * MetaScoreNow.d
       IN /\ IsTrade <=> met
          /\ IsTrade => /\ decision.direction = AgreementNow.majorityDirection
                        /\ decision.confidence = RoundDiv(MetaScoreNow.n, MetaScoreNow.d)
                        /\ decision.hasLevels
          /\ ~IsTrade => /\ decision.status = "returned"
                         /\ decision.direction = "NO_TRADE"

\* the verdicts the tally may count: directional with a score above 40
CountedVerdicts(dir) ==
  {i \in DOMAIN detectorResults :
     detectorResults[i].direction = dir /\ detectorResults[i].score > 40}

\* C3: calculateDetectorAgreement counts a verdict toward LONG or SHORT only if
\* it is directional with score > 40; the majority count is the larger tally
\* and agreementRatio is majorityCount / totalDirectional.
C3_AgreementCountsScoresAbove40 ==
  pc = "decided"
    => LET a == AgreementNow
           long == Cardinality(CountedVerdicts("LONG"))
           short == Cardinality(CountedVerdicts("SHORT"))
       IN /\ a.directions.LONG = long
          /\ a.directions.SHORT = short
          /\ a.majorityCount = Max(long, short)
          /\ "agreementRatio" \in DOMAIN a
          /\ "totalDirectional" \in DOMAIN a
          /\ a.agreementRatio.n * a.totalDirectional = a.majorityCount * a.agreementRatio.d

\* the verdicts agreeing with the majority direction
Agreeing ==
  {i \in DOMAIN detectorResults :
     /\ detectorResults[i].direction # "NEUTRAL"
     /\ detectorResults[i].direction = AgreementNow.majorityDirection}

RECURSIVE SumOver(_, _)
SumOver(f, S) ==
  IF S = {} THEN 0 ELSE LET i == CHOOSE j \in S : TRUE IN f[i] + SumOver(f, S \ {i})

\* C4: when the majority count meets minDetectorAgreement the meta-score is
\* clamp((W + min(20, 5 * (F - 1))) * m, 0, 100): W the weight-weighted mean
\* of the agreeing scores, F their distinct families, m the time multiplier.
C4_MetaScoreFormula ==
  (/\ pc = "decided"
   /\ AgreementNow.majorityCount >= config.minDetectorAgreement
   /\ \A i \in Agreeing : detectorResults[i].name # Undefined)
    => LET weight == [i \in Agreeing |->
                        WeightOf(config.detectorWeights, detectorResults[i].name)]
           weighted == [i \in Agreeing |-> detectorResults[i].score * weight[i]]
           sumW == SumOver(weight, Agreeing)
           F == Cardinality({Split(Chars(detectorResults[i].name), "_")[1] : i \in Agreeing})
           m == getTimeOfDayMultiplier(hour, config.timeOfDayMultipliers)
           \* (W + bonus) * m as the fraction num/den
           num == (SumOver(weighted, Agreeing) + Min(20, 5 * (F - 1)) * sumW) * m
           den == sumW * 10
           expected == Clamp100(num, den)
       IN /\ ~MetaScoreNow.raised
          /\ MetaScoreNow.n * expected.d = expected.n * MetaScoreNow.d
          /\ MetaScoreNow.n >= 0
          /\ MetaScoreNow.n <= 100 * MetaScoreNow.d

\* C6: with fewer than 10 bars of 15m history the levels of a LONG at price P
\* are entry P, stop 0.98 * P and a target at 1.8 times the risk; a SHORT has
\* the stop at 1.02 * P and the mirrored target.
C6_FallbackLevels ==
  (pc = "decided" /\ IsTrade /\ Len(CandlesOr(data, "15m")) < 10)
    => LET P == LastClose(data, "15m") * LevelScale
           risk == (P * 2) \div 100
           sign == IF decision.direction = "LONG" THEN 1 ELSE -1
       IN /\ decision.levels.entry = P
          /\ decision.levels.sl = P - sign * risk
          /\ decision.levels.tp = P + sign * ((risk * 18) \div 10)
          /\ decision.levels.rr = [kind |-> "number", value |-> 180]

----------------------------------------------------------------------------
(* The detector suite                                                      *)

RegistrationOrder ==
  << "momentum_breakout", "vwap_pullback", "volatility_squeeze", "orderbook_sweep",
     "rsi_momentum", "volume_spike", "correlation_break" >>

Unweighted(v) == [v EXCEPT !.weight = 0]

\* the order book has levels on both sides but they are not [price, volume] pairs
OrderbookFaults ==
  /\ "orderbook" \in data.present
  /\ Len(data.orderbook.bids) > 0 /\ Len(data.orderbook.asks) > 0
  /\ ~data.orderbook.levelsAreArrays

C8_AnalyzeAlwaysReturnsDecision ==
  pc = "decided"
    => /\ decision.status = "returned"
       /\ \/ decision.direction \in {"LONG", "SHORT"} /\ decision.hasLevels
          \/ /\ decision.direction = "NO_TRADE"
             /\ decision.reason # ""
             /\ decision.explain.keys # {}

\* C9: every verdict of runAllDetectors carries its detector's name, a score
\* in 0..100, a direction, a reason and a weight.
C9_VerdictsCarryAllFields ==
  pc \in {"detected", "decided"}
    => \A i \in DOMAIN detectorResults :
         /\ detectorResults[i].name = RegistrationOrder[i]
         /\ detectorResults[i].score \in 0..100
         /\ detectorResults[i].direction \in {"LONG", "SHORT", "NEUTRAL"}
         /\ detectorResults[i].reason # ""
         /\ detectorResults[i].weight > 0

\* every timeframe is missing or shorter than any detector asks of it, and the
\* order book is missing or has no levels
NothingToAnalyze ==
  /\ Len(CandlesOr(data, "1m")) < 50
  /\ Len(CandlesOr(data, "15m")) < 15
  /\ Len(CandlesOr(data, "1h")) < 10
  /\ \/ "orderbook" \notin data.present
     \/ Len(data.orderbook.bids) = 0 /\ Len(data.orderbook.asks) = 0

\* C10: on a snapshot with nothing to analyze all seven verdicts are NEUTRAL
\* with score 0, no detector faults, and the decision is NO_TRADE.
C10_NothingToAnalyzeIsNoTrade ==
  (pc \in {"detected", "decided"} /\ NothingToAnalyze)
    => /\ Len(detectorResults) = 7
       /\ \A i \in 1..7 :
            /\ detectorResults[i].direction = "NEUTRAL"
            /\ detectorResults[i].score = 0
            /\ ~IsFaultVerdict(detectorResults[i])
       /\ pc = "decided"
            => /\ decision.status = "returned"
               /\ decision.direction = "NO_TRADE"

\* a few 15m bars ending in a heavy bar, nothing else, and the full analyze ran
C10_Witness ==
  /\ pc = "decided" /\ impl = "full"
  /\ NothingToAnalyze
  /\ Len(CandlesOr(data, "15m")) > 0
  /\ data.candles["15m"][Len(data.candles["15m"])].volume > BaseVolume
  /\ decision.direction = "NO_TRADE"

----------------------------------------------------------------------------
(* Momentum breakout                                                       *)

\* the 15m series has at least 25 bars, the final bar's high is at least 1%
\* above the maximum high of the 20 bars before it, and the final bar's volume
\* has z-score > 1 and exceeds 1.5 times the 20-bar volume mean
BreakoutOnVolume ==
  LET candles == CandlesOr(data, "15m")
      n == Len(candles)
  IN /\ n >= 25
     /\ 100 * candles[n].high
          >= 101 * MaxSeq([k \in 1..20 |-> candles[n - 21 + k].high])
     /\ ZGreater(calculateZScore(candles[n].volume, LastN(Volumes(candles), 20)), 1, 1)
     /\ 2 * 20 * candles[n].volume > 3 * SumSeq(LastN(Volumes(candles), 20))

\* C11: on a 15m series of at least 25 bars whose final high exceeds the maximum
\* high of the preceding 20 bars by at least 1%, on a final volume with z-score
\* > 1 and above 1.5 times the 20-bar mean, momentumBreakoutDetector returns
\* direction LONG with a score above 0.
C11_BreakoutIsLong ==
  (pc \in {"detected", "decided"} /\ BreakoutOnVolume)
    => /\ detectorResults[1] = Weighted(momentumBreakoutDetector(data))
       /\ detectorResults[1].direction = "LONG"
       /\ detectorResults[1].score > 0

----------------------------------------------------------------------------
(* C12: the order of the verdict list                                      *)

Permuted(rs, p) == [i \in DOMAIN rs |-> rs[p[i]]]

DecisionOn(rs) ==
  IF impl = "full" THEN analyze(rs, data, hour, config)
  ELSE analyzeSimplified(rs, data, config)

\* C12: for a fixed configuration, hour and snapshot, every reordering of the
\* verdict list gives the same agreement tallies, majority direction and count,
\* the same meta-score in exact arithmetic, the same decision direction and the
\* same confidence as the order that was analysed.
C12_OrderIrrelevant ==
  (pc = "decided" /\ decision.status = "returned")
    => \A p \in Permutations(DOMAIN detectorResults) :
         LET other == DecisionOn(Permuted(detectorResults, p))
         IN /\ other.status = "returned"
            /\ other.explain.agreement = decision.explain.agreement
            /\ other.explain.metaScore = decision.explain.metaScore
            /\ other.direction = decision.direction
            /\ other.confidence = decision.confidence

----------------------------------------------------------------------------
(* C13: the detector suite as a function of the snapshot                   *)

\* C13: a second evaluation of runAllDetectors on the snapshot of the current
\* cycle gives, for every detector, the direction and the score of the first
\* evaluation, and analyze gives the same decision direction on its verdicts.
C13_SuiteIsFunctionOfSnapshot ==
  \A coin \in BOOLEAN :
    LET again == runAllDetectors(data, coin)
    IN /\ pc \in {"detected", "decided"}
            => /\ Len(again) = Len(detectorResults)
               /\ \A i \in DOMAIN again :
                    /\ again[i].direction = detectorResults[i].direction
                    /\ again[i].score = detectorResults[i].score
       /\ (pc = "decided" /\ decision.status = "returned")
            => DecisionOn(again).direction = decision.direction

----------------------------------------------------------------------------
(* TradingUtils called on its own, with fractional numbers                 *)

\* array.reduce((a, b) => a + b, 0), from element i on
RECURSIVE DSumFrom(_, _, _)
DSumFrom(array, i, acc) ==
  IF i > Len(array) THEN acc ELSE DSumFrom(array, i + 1, DAdd(acc, array[i]))

\* TradingUtils.calculateZScore(value, array) on doubles: the sign of the number
\* it returns.  The elements are far from the underflow range, so the square
\* of a difference n - mean is 0 only when the difference is, stdDev is 0 only
\* when every element equals the computed mean, and (value - mean) / stdDev is
\* 0 only when value equals the computed mean.
calculateZScoreDouble(value, array) ==
  IF Len(array) = 0 THEN [kind |-> "number", sign |-> 0]
  ELSE LET mean == DDiv(DSumFrom(array, 1, DZero), DFromInt(Len(array)))
           stdDevIsZero == \A i \in DOMAIN array : DCmp(array[i], mean) = 0
       IN [kind |-> "number",
           sign |-> IF stdDevIsZero THEN 0 ELSE DCmp(value, mean)]

\* the numbers handed to the utilities, in tenths: 0.1, 0.3, 1.0, 1.2
TenthsInputs == {1, 3, 10, 12}
MaxSeries == 3
SeriesInputs == UNION { [1..n -> TenthsInputs] : n \in 0..MaxSeries }

\* the doubles of a series given in tenths
DSeries(array) == [i \in DOMAIN array |-> DTenths(array[i])]

\* TradingUtils.calculateZScore(value, array)
CallZScore ==
  /\ call = NoCall
  /\ \E value \in TenthsInputs, array \in SeriesInputs :
       /\ call' = [fn |-> "calculateZScore", value |-> value, array |-> array]
       /\ returned' = calculateZScoreDouble(DTenths(value), DSeries(array))
  /\ UNCHANGED <<botVars, impl, config, hour, data, detectorResults, decision, pc, dataVars>>

\* units of the decimal strings toFixed(2) and toFixed(8) spell
CentScale == 10 * 10
SizeScale == CentScale * 1000 * 1000

\* TradingUtils.calculatePositionSize(accountBalance, riskPercent, entry,
\* stopLoss) for whole-number arguments.  The zero case returns two numbers;
\* otherwise size is the string size.toFixed(8), held in 1/SizeScale, and
\* maxLoss the string riskAmount.toFixed(2), held in 1/CentScale.  The doubles
\* differ from the exact quotients by less than 10^-13, and for the risk
\* distances below 2^10 used here no exact quotient lies halfway between two
\* neighbouring strings, so the strings are those of the exact quotients.
calculatePositionSize(accountBalance, riskPercent, entry, stopLoss) ==
  LET riskAmountCents == accountBalance * riskPercent
      riskPerUnit == Abs(entry - stopLoss)
  IN IF riskPerUnit = 0
     THEN [kind |-> "numbers", size |-> 0, maxLoss |-> 0]
     ELSE [kind |-> "strings",
           size |-> RoundDiv(riskAmountCents * (SizeScale \div CentScale), riskPerUnit),
           maxLoss |-> riskAmountCents]

\* the arguments analyzeSymbol passes: balance and risk percent of the
\* environment, entry and stop of a decision
BalanceInputs == {100, 250}
RiskPercentInputs == {1, 2}
PriceInputs == 97..103

\* TradingUtils.calculatePositionSize(accountBalance, riskPercent, entry, sl)
CallPositionSize ==
  /\ call = NoCall
  /\ \E accountBalance \in BalanceInputs, riskPercent \in RiskPercentInputs,
        entry \in PriceInputs, stopLoss \in PriceInputs :
       /\ call' = [fn |-> "calculatePositionSize", accountBalance |-> accountBalance,
                   riskPercent |-> riskPercent, entry |-> entry, stopLoss |-> stopLoss]
       /\ returned' = calculatePositionSize(accountBalance, riskPercent, entry, stopLoss)
  /\ UNCHANGED <<botVars, impl, config, hour, data, detectorResults, decision, pc, dataVars>>

\* the bars handed to calculateATR: a quiet bar, a rise, a fall through the
\* previous close, and a bar without range
BarInputs ==
  { Candle(20, 22, 19, 21, BaseVolume), Candle(21, 25, 20, 24, BaseVolume),
    Candle(24, 24, 18, 19, BaseVolume), Candle(20, 20, 20, 20, BaseVolume) }
MaxCandles == 4
CandleInputs == UNION { [1..n -> BarInputs] : n \in 0..MaxCandles }
PeriodInputs == {2, 3}

\* TradingUtils.calculateATR(candles, period)
CallATR ==
  /\ call = NoCall
  /\ \E candles \in CandleInputs, period \in PeriodInputs :
       /\ call' = [fn |-> "calculateATR", candles |-> candles, period |-> period]
       /\ returned' = [kind |-> "number", value |-> calculateATR(candles, period)]
  /\ UNCHANGED <<botVars, impl, config, hour, data, detectorResults, decision, pc, dataVars>>

\* the caller has taken the result; the utilities keep nothing between calls
ReturnToCaller ==
  /\ call # NoCall
  /\ call' = NoCall
  /\ returned' = NoReturn
  /\ UNCHANGED <<botVars, impl, config, hour, data, detectorResults, decision, pc, dataVars>>

\* the closing prices handed to calculateRSI
CloseInputs == 19..22
MaxCloses == 4
ClosesInputs == UNION { [1..n -> CloseInputs] : n \in 0..MaxCloses }

\* TradingUtils.calculateRSI(closes, period)
CallRSI ==
  /\ call = NoCall
  /\ \E closes \in ClosesInputs, period \in PeriodInputs :
       /\ call' = [fn |-> "calculateRSI", closes |-> closes, period |-> period]
       /\ returned' = [kind |-> "number", value |-> calculateRSI(closes, period)]
  /\ UNCHANGED <<botVars, impl, config, hour, data, detectorResults, decision, pc, dataVars>>

\* TradingUtils called on its own
InitUtil == Init /\ impl = "full" /\ config = EnsembleConfig(0, 0, <<>>)

NextUtil == CallZScore \/ CallPositionSize \/ CallATR \/ ReturnToCaller \/ CallRSI

SpecUtil == InitUtil /\ [][NextUtil]_vars

----------------------------------------------------------------------------
(* C14 to C17: the utilities                                               *)

\* C14: calculateZScore returns 0 for any value when the series is empty or all
\* its elements are equal.
C14_ZeroOnConstantSeries ==
  (/\ call.fn = "calculateZScore"
   /\ \A i, j \in DOMAIN call.array : call.array[i] = call.array[j])
    => returned.sign = 0

\* C15: calculatePositionSize returns size 0 and maxLoss 0 when entry equals
\* stopLoss; otherwise maxLoss is balance * riskPct / 100 and size times the
\* risk distance equals maxLoss, for a stop below and above the entry alike.
C15_SizeTimesRiskIsMaxLoss ==
  call.fn = "calculatePositionSize"
    => IF call.entry = call.stopLoss
       THEN returned.size = 0 /\ returned.maxLoss = 0
       ELSE /\ returned.maxLoss = call.accountBalance * call.riskPercent
            /\ returned.size * Abs(call.entry - call.stopLoss)
                 = returned.maxLoss * (SizeScale \div CentScale)
            /\ returned = calculatePositionSize(call.accountBalance, call.riskPercent,
                                                call.stopLoss, call.entry)

\* the true ranges of a candle list, one for each candle after the first: the
\* largest of high - low, |high - previous close| and |low - previous close|
TrueRangesOf(candles) ==
  [k \in 1..(Len(candles) - 1) |->
     LET ranges == { candles[k + 1].high - candles[k + 1].low,
                     Abs(candles[k + 1].high - candles[k].close),
                     Abs(candles[k + 1].low - candles[k].close) }
     IN CHOOSE m \in ranges : \A x \in ranges : x <= m]

\* Wilder's smoothing of period or more true ranges, in 1/AtrScale: the mean of
\* the first period of them, then (previous * (period - 1) + range) / period
RECURSIVE WilderOf(_, _)
WilderOf(trs, period) ==
  IF Len(trs) = period THEN RoundDiv(SumSeq(trs) * AtrScale, period)
  ELSE RoundDiv(WilderOf(FirstN(trs, Len(trs) - 1), period) * (period - 1)
                  + trs[Len(trs)] * AtrScale,
                period)

\* C16: calculateATR returns 0 for fewer than period + 1 candles, and for
\* period + 1 candles or more a non-negative number, the Wilder-smoothed true
\* range of the candles.
C16_WilderATR ==
  call.fn = "calculateATR"
    => /\ returned.kind = "number"
       /\ IF Len(call.candles) < call.period + 1
          THEN returned.value = 0
          ELSE /\ returned.value >= 0
               /\ returned.value = WilderOf(TrueRangesOf(call.candles), call.period)

\* a call with more candles than the seed needs, whose smoothing steps moved
\* the value away from the seed
C16_Witness ==
  /\ call.fn = "calculateATR"
  /\ Len(call.candles) > call.period + 1
  /\ returned.value > 0
  /\ returned.value # WilderOf(FirstN(TrueRangesOf(call.candles), call.period), call.period)

StrictlyFalling(closes) == \A k \in 1..(Len(closes) - 1) : closes[k + 1] < closes[k]
StrictlyRising(closes) == \A k \in 1..(Len(closes) - 1) : closes[k + 1] > closes[k]

\* C17: calculateRSI returns 50 for fewer than period + 1 closes; for period + 1
\* closes or more it returns the Wilder RSI of the series, a value from 0 to
\* 100: 0 for a strictly falling series and 100 for a strictly rising one.
C17_WilderRSI ==
  call.fn = "calculateRSI"
    => IF Len(call.closes) < call.period + 1
       THEN returned.value = 50 * 100
       ELSE /\ returned.value = LibraryRSI(call.closes, call.period)
            /\ returned.value \in 0..(100 * 100)
            /\ StrictlyFalling(call.closes) => returned.value = 0
            /\ StrictlyRising(call.closes) => returned.value = 100 * 100

----------------------------------------------------------------------------
(* DataService.getActiveSource, called by callers that overlap             *)

\* iteration i of the loop of getActiveSource up to its await: sourceIndex is
\* computed from this.currentSourceIndex as it is when the iteration starts
Probe(i) ==
  [pc |-> "probing", i |-> i, sourceIndex |-> (currentSourceIndex + i) % NumSources]

\* a caller calls getActiveSource(): the first iteration, up to await fetchTime()
StartGetActiveSource(c) ==
  /\ requests[c].pc = "idle"
  /\ requests' = [requests EXCEPT ![c] = Probe(0)]
  /\ UNCHANGED <<botVars, impl, config, hour, data, detectorResults, decision, pc, call,
                 returned, currentSourceIndex, sourcesUp>>

\* await source.fetchTime() resolves: this.currentSourceIndex = sourceIndex;
\* return source
FetchTimeResolves(c) ==
  /\ requests[c].pc = "probing"
  /\ requests[c].sourceIndex \in sourcesUp
  /\ currentSourceIndex' = requests[c].sourceIndex
  /\ requests' = [requests EXCEPT ![c].pc = "returned"]
  /\ UNCHANGED <<botVars, impl, config, hour, data, detectorResults, decision, pc, call,
                 returned, sourcesUp>>

\* await source.fetchTime() rejects: the catch block continues with the next
\* iteration, or the loop ends and the function throws 'All data sources are
\* unavailable'
FetchTimeRejects(c) ==
  /\ requests[c].pc = "probing"
  /\ requests[c].sourceIndex \notin sourcesUp
  /\ requests' = [requests EXCEPT ![c] =
                    IF requests[c].i + 1 < NumSources THEN Probe(requests[c].i + 1)
                    ELSE [@ EXCEPT !.pc = "threw"]]
  /\ UNCHANGED <<botVars, impl, config, hour, data, detectorResults, decision, pc, call,
                 returned, currentSourceIndex, sourcesUp>>

\* the caller has the source, or the error
ResultTaken(c) ==
  /\ requests[c].pc \in {"returned", "threw"}
  /\ requests' = [requests EXCEPT ![c] = NoRequest]
  /\ UNCHANGED <<botVars, impl, config, hour, data, detectorResults, decision, pc, call,
                 returned, currentSourceIndex, sourcesUp>>

\* exchanges go down and come back; here only while no call is in flight, so
\* that every call sees one state of the sources throughout
SourcesChange ==
  /\ \A c \in Callers : requests[c].pc = "idle"
  /\ \E up \in SUBSET Sources : up # sourcesUp /\ sourcesUp' = up
  /\ UNCHANGED <<botVars, impl, config, hour, data, detectorResults, decision, pc, call,
                 returned, currentSourceIndex, requests>>

InitData == Init /\ impl = "full" /\ config = EnsembleConfig(0, 0, <<>>)

NextData ==
  \/ \E c \in Callers : StartGetActiveSource(c)
  \/ \E c \in Callers : FetchTimeResolves(c)
  \/ \E c \in Callers : FetchTimeRejects(c)
  \/ \E c \in Callers : ResultTaken(c)
  \/ SourcesChange

SpecData == InitData /\ [][NextData]_vars

\* C18: getActiveSource returns a source whose connectivity check succeeds,
\* and throws 'All data sources are unavailable' only when every source
\* fails: while some source is up no call fails.
C18_FailsOnlyWhenAllSourcesFail ==
  \A c \in Callers :
    /\ requests[c].pc = "returned" => requests[c].sourceIndex \in sourcesUp
    /\ requests[c].pc = "threw" => sourcesUp = {}

----------------------------------------------------------------------------
(* C19: the reported risk/reward ratio                                     *)

\* a trade decision of the full version is on record
FullTradeDecided ==
  /\ pc = "decided"
  /\ impl = "full"
  /\ decision.status = "returned"
  /\ decision.direction \in {"LONG", "SHORT"}

\* directionalDetectors.some(...) of generateLevels for the decision on record
StrongMomentumAgrees ==
  SomeStrongMomentum(
    SortByScoreDesc(SelectSeq(detectorResults,
      LAMBDA v : v.direction = decision.direction /\ v.score > 50)), 1).found

\* C19: on every trade decision with non-zero risk distance the reported
\* risk/reward ratio is |takeProfit - entry| / |entry - stopLoss| rounded to 2
\* decimals and never below 1.5; it is exactly 1.5 when no agreeing momentum-
\* or volume-named verdict scores above 70, and when one does the take-profit
\* lies further from entry than entry +/- 1.5 * risk, for LONG and for SHORT
C19_RiskRewardAtLeastOneAndAHalf ==
  (FullTradeDecided /\ decision.levels.entry # decision.levels.sl) =>
    LET levels == decision.levels
        risk == Abs(levels.entry - levels.sl)
    IN /\ levels.rr = RatioToFixed2(Abs(levels.tp - levels.entry), risk)
       /\ levels.rr.value >= 150
       /\ ~StrongMomentumAgrees => levels.rr.value = 150
       /\ StrongMomentumAgrees =>
            IF decision.direction = "LONG"
            THEN 2 * levels.tp > 2 * levels.entry + 3 * risk
            ELSE 2 * levels.tp < 2 * levels.entry - 3 * risk

----------------------------------------------------------------------------
(* C20: the explain payload                                                *)

\* the reasons analyze pushes for the conditions that fail on the verdicts on
\* record: agreement, confidence, valid direction, in that order
FailedConditions ==
  LET agreement == decision.explain.agreement
      double == IF impl = "full"
                THEN calculateMetaScoreDouble(detectorResults, agreement, hour, config)
                ELSE calculateMetaScoreSimplifiedDouble(detectorResults, agreement, config)
  IN (IF agreement.majorityCount < config.minDetectorAgreement
      THEN <<"Insufficient detector agreement">> ELSE <<>>)
     \o (IF ~ReachesConfidence(decision.explain.metaScore, double, config.minConfidence)
         THEN <<"Low confidence">> ELSE <<>>)
     \o (IF agreement.majorityDirection = "NEUTRAL"
         THEN <<"No clear directional bias">> ELSE <<>>)

\* C20: every Decision's explain payload holds the per-detector breakdown, the
\* agreement stats, the raw meta-score and the active time multiplier; every
\* NO_TRADE Decision also carries a non-empty failureReasons list with exactly
\* one reason for each failed condition, and requirementsMet is true exactly on
\* trade decisions
C20_ExplainIsComplete ==
  (pc = "decided" /\ decision.status = "returned") =>
    LET explain == decision.explain
    IN /\ {"detectorResults", "agreement", "metaScore", "timeMultiplier",
           "requirementsMet"} \subseteq explain.keys
       /\ explain.requirementsMet = (decision.direction # "NO_TRADE")
       /\ decision.direction = "NO_TRADE" =>
            /\ "failureReasons" \in explain.keys
            /\ explain.failureReasons # <<>>
            /\ explain.failureReasons = FailedConditions

----------------------------------------------------------------------------
(* The detectors called on their own                                       *)

\* a bar that opens and closes at c
FlatBar(c) == Candle(c, c + 1, c - 1, c, BaseVolume)

\* n closes from 2 * BasePrice: one change against the trend of size g, then l
\* changes of 1 with the trend, then no change (RSI 100g/(g+l) when falling)
TrendCloses(n, trend, g, l) ==
  [i \in 1..n |->
     LET against == IF i >= 2 THEN g ELSE 0
         along == Min(Max(i - 2, 0), l)
     IN IF trend = "falling" THEN 2 * BasePrice + against - along
        ELSE 2 * BasePrice - against + along]

TrendSeries(n, trend, g, l) ==
  LET closes == TrendCloses(n, trend, g, l) IN [i \in 1..n |-> FlatBar(closes[i])]

Trends == {"falling", "rising"}

\* the histories handed to rsiMomentumDetector
RsiSeries15m ==
  { TrendSeries(n, trend, g, l) :
      n \in {14, 15, 16}, trend \in Trends, g \in {0, 1, 3}, l \in {2, 4, 7, 13} }

RsiSeries1h ==
  { TrendSeries(n, trend, g, l) : n \in {14, 15}, trend \in Trends, g \in {0, 1, 3}, l \in {4, 7} }

\* a detector's verdict as its caller receives it
Returned(v) == [kind |-> "verdict", verdict |-> v]

\* SignalDetectors.rsiMomentumDetector(data) called with a snapshot
CallRsiMomentum ==
  /\ call = NoCall
  /\ \E c15m \in RsiSeries15m, c1h \in RsiSeries1h :
       LET d == Snapshot(AllKeys, <<>>, c15m, c1h, <<>>, Orderbook("empty"), 0)
       IN /\ call' = [fn |-> "rsiMomentumDetector", data |-> d]
          /\ returned' = Returned(rsiMomentumDetector(d))
  /\ UNCHANGED <<botVars, impl, config, hour, data, detectorResults, decision, pc, dataVars>>

\* n 15-minute bars of which the last k trade ten times the base volume, the
\* last one closing move above the close before it
SpikeSeries(n, k, move) ==
  [i \in 1..n |->
     Candle(BasePrice, BasePrice + 2, BasePrice - 2,
            IF i = n THEN BasePrice + move ELSE BasePrice,
            IF i > n - k THEN 10 * BaseVolume ELSE BaseVolume)]

SpikeSeriesInputs ==
  { SpikeSeries(n, k, move) : n \in {19, 20, 21}, k \in 0..5, move \in {-1, 0, 1} }

\* SignalDetectors.volumeSpikeDetector(data) called with a snapshot
CallVolumeSpike ==
  /\ call = NoCall
  /\ \E c15m \in SpikeSeriesInputs :
       LET d == Snapshot(AllKeys, <<>>, c15m, <<>>, <<>>, Orderbook("empty"), BasePrice)
       IN /\ call' = [fn |-> "volumeSpikeDetector", data |-> d]
          /\ returned' = Returned(volumeSpikeDetector(d))
  /\ UNCHANGED <<botVars, impl, config, hour, data, detectorResults, decision, pc, dataVars>>

\* the price level of the 1-minute history: 0.2% of it is 2
PullbackPrice == 50 * BasePrice

\* n still 1-minute bars at PullbackPrice and a last bar of its own
PullbackSeries(n, last) ==
  [i \in 1..n |->
     IF i < n
     THEN Candle(PullbackPrice, PullbackPrice, PullbackPrice, PullbackPrice, BaseVolume)
     ELSE last]

\* last bars: closing below, just above and far above the level, opening one
\* below or one above the close, with or without an upper wick, on four volumes
PullbackLastBars ==
  { Candle(PullbackPrice + c + o,
           Max(PullbackPrice + c + o, PullbackPrice + c) + w,
           Min(PullbackPrice + c + o, PullbackPrice + c),
           PullbackPrice + c, v) :
      c \in {-1, 1, 3}, o \in {-1, 1}, w \in {0, 3}, v \in {10, 12, 13, 20} }

\* SignalDetectors.vwapPullbackDetector(data) called with a snapshot
CallVwapPullback ==
  /\ call = NoCall
  /\ \E n1m \in {49, 50, 51}, n15m \in {19, 20}, last \in PullbackLastBars :
       LET d == Snapshot(AllKeys, PullbackSeries(n1m, last),
                         Series15m(n15m, BasePrice, "quiet"), <<>>, <<>>,
                         Orderbook("empty"), PullbackPrice)
       IN /\ call' = [fn |-> "vwapPullbackDetector", data |-> d]
          /\ returned' = Returned(vwapPullbackDetector(d))
  /\ UNCHANGED <<botVars, impl, config, hour, data, detectorResults, decision, pc, dataVars>>

\* one side of an order book: [price, volume] levels, best first
BookSides ==
  { <<>>,
    << <<BasePrice, 0>> >>,
    << <<BasePrice, 5>> >>,
    << <<BasePrice, 11>> >>,
    << <<BasePrice, 35>> >>,
    << <<BasePrice, 65>> >>,
    << <<BasePrice, 20>>, <<BasePrice, 10>>, <<BasePrice, 5>>, <<BasePrice, 500>> >> }

\* the order books handed to orderbookSweepDetector, and a snapshot without one
BookSnapshots ==
  { Snapshot(AllKeys, <<>>, <<>>, <<>>, <<>>,
             [bids |-> bids, asks |-> asks, levelsAreArrays |-> TRUE], BasePrice) :
      bids \in BookSides, asks \in BookSides }
  \cup { Snapshot(AllKeys \ {"orderbook"}, <<>>, <<>>, <<>>, <<>>, Orderbook("empty"),
                  BasePrice) }

\* SignalDetectors.orderbookSweepDetector(data) called with a snapshot
CallOrderbookSweep ==
  /\ call = NoCall
  /\ \E d \in BookSnapshots :
       /\ call' = [fn |-> "orderbookSweepDetector", data |-> d]
       /\ returned' = Returned(orderbookSweepDetector(d))
  /\ UNCHANGED <<botVars, impl, config, hour, data, detectorResults, decision, pc, dataVars>>

InitDet == InitUtil

NextDet ==
  CallRsiMomentum \/ CallVolumeSpike \/ CallVwapPullback \/ CallOrderbookSweep
    \/ ReturnToCaller

SpecDet == InitDet /\ [][NextDet]_vars

----------------------------------------------------------------------------
(* C21 to C24: the detectors                                               *)

\* the Wilder RSI(14) of a history, in hundredths; 5000 when it is too short
Rsi14(candles) ==
  IF Len(candles) < 15 THEN 5000 ELSE LibraryRSI(Closes(candles), 14)

\* the structure of the rsiMomentumDetector verdict for the call on record;
\* scoreIs(score, x) relates the score to x = 3 * distance in hundredths
RsiVerdictFollows(scoreIs(_, _)) ==
  LET v == returned.verdict
      candles15m == CandlesOr(call.data, "15m")
      candles1h == CandlesOr(call.data, "1h")
      enough == Len(candles15m) >= 15 /\ Len(candles1h) >= 15
      rsi15m == Rsi14(candles15m)
      rsi1h == Rsi14(candles1h)
      oversold == enough /\ rsi15m < 3000 /\ rsi1h < 3000
      overbought == enough /\ rsi15m > 7000 /\ rsi1h > 7000
  IN /\ v.direction = "LONG" => oversold
     /\ v.direction = "SHORT" => overbought
     /\ (~oversold /\ ~overbought) => (v.direction = "NEUTRAL" /\ v.score = 0)
     /\ v.direction = "LONG" => scoreIs(v.score, Min(100 * 100, 3 * (3000 - rsi15m)))
     /\ v.direction = "SHORT" => scoreIs(v.score, Min(100 * 100, 3 * (rsi15m - 7000)))

ScoreEquals(score, x) == 100 * score = x
ScoreRounds(score, x) == 2 * Abs(100 * score - x) <= 100

\* C21: rsiMomentumDetector returns LONG only if both the 15m and the 1h
\* RSI(14) are below 30 and SHORT only if both are above 70; with one timeframe
\* past a threshold only, or fewer than 15 bars on either, the verdict is
\* NEUTRAL with score 0; a directional score is min(100, 3 * distance of the
\* 15m RSI past its threshold)
C21_DualTimeframeRsi ==
  call.fn = "rsiMomentumDetector" => RsiVerdictFollows(ScoreEquals)

\* C21 as amended: the same, with the directional score being
\* min(100, 3 * distance) rounded to the nearest integer
C21_DualTimeframeRsiRounded ==
  call.fn = "rsiMomentumDetector" => RsiVerdictFollows(ScoreRounds)

\* an oversold verdict on record whose score had to be rounded
C21_Witness ==
  /\ call.fn = "rsiMomentumDetector"
  /\ returned.verdict.direction = "LONG"
  /\ returned.verdict.score > 0
  /\ (3 * (3000 - Rsi14(CandlesOr(call.data, "15m")))) % 100 # 0

\* the final bar's volume z-score over the trailing 20 bars exceeds 2.0:
\* 20 * v - sum > 2 * sqrt(20 * sum of squares - sum^2)
QualifyingSpike(candles15m) ==
  /\ Len(candles15m) >= 20
  /\ LET volumes == LastN(Volumes(candles15m), 20)
         excess == 20 * volumes[20] - SumSeq(volumes)
     IN excess > 0 /\ excess * excess > 4 * ScaledVariance(volumes)

\* C22: volumeSpikeDetector returns a directional verdict only when the final
\* bar's volume z-score over the trailing 20 fifteen-minute bars exceeds 2.0
\* and the candle has a direction (LONG if close > previous close, SHORT if
\* close < previous close); a qualifying spike with close equal to the previous
\* close yields NEUTRAL with score 0, and without a qualifying spike the verdict
\* is always NEUTRAL with score 0
C22_SpikeNeedsDirection ==
  call.fn = "volumeSpikeDetector" =>
    LET v == returned.verdict
        candles15m == CandlesOr(call.data, "15m")
        n == Len(candles15m)
        spike == QualifyingSpike(candles15m)
    IN /\ v.direction = "LONG" <=> (spike /\ candles15m[n].close > candles15m[n - 1].close)
       /\ v.direction = "SHORT" <=> (spike /\ candles15m[n].close < candles15m[n - 1].close)
       /\ (spike /\ candles15m[n].close = candles15m[n - 1].close) =>
            (v.direction = "NEUTRAL" /\ v.score = 0)
       /\ ~spike => (v.direction = "NEUTRAL" /\ v.score = 0)

\* a spike on a bar that closed where the bar before it closed
C22_Witness ==
  /\ call.fn = "volumeSpikeDetector"
  /\ QualifyingSpike(CandlesOr(call.data, "15m"))
  /\ returned.verdict.reason = "Volume spike but no clear direction"

\* the sum of the typical prices (high + low + close) / 3 weighted by volume,
\* times 3, over the bars
TypicalPriceVolume3(candles) ==
  SumSeq([i \in DOMAIN candles |->
            (candles[i].high + candles[i].low + candles[i].close) * candles[i].volume])

\* the last 1m close is above VWAP(last 50 bars) and within 0.2% of it, the last
\* bar is a bullish reversal and its volume exceeds 1.2 times the 10-bar average
PullbackSetup(candles1m) ==
  LET window == LastN(candles1m, 50)
      last == candles1m[Len(candles1m)]
      volume == SumSeq(Volumes(window))
      tpv3 == TypicalPriceVolume3(window)
      close3 == 3 * last.close * volume
      recent == Volumes(LastN(candles1m, 10))
  IN /\ volume > 0
     /\ close3 > tpv3
     /\ 1000 * (close3 - tpv3) <= 2 * tpv3
     /\ last.close > last.open
     /\ 2 * last.close > last.high + last.low
     /\ 10 * Len(recent) * last.volume > 12 * SumSeq(recent)

\* C23: vwapPullbackDetector never returns SHORT: for every snapshot its
\* direction is LONG or NEUTRAL, and it is LONG only when the last 1m close is
\* above VWAP(last 50 1m bars), within 0.2% of it, the last bar is a bullish
\* reversal and its volume exceeds 1.2 times the 10-bar average
C23_PullbackIsLongOnly ==
  call.fn = "vwapPullbackDetector" =>
    LET v == returned.verdict
        candles1m == CandlesOr(call.data, "1m")
    IN /\ v.direction \in {"LONG", "NEUTRAL"}
       /\ v.direction = "LONG" => (Len(candles1m) >= 50 /\ PullbackSetup(candles1m))

\* a mirrored setup on record that stayed NEUTRAL: the last bar closed below
\* its open and below VWAP on twice the base volume
C23_Witness ==
  /\ call.fn = "vwapPullbackDetector"
  /\ Len(CandlesOr(call.data, "1m")) >= 50
  /\ Len(CandlesOr(call.data, "15m")) >= 20
  /\ LET candles1m == CandlesOr(call.data, "1m")
         last == candles1m[Len(candles1m)]
     IN /\ last.close < last.open
        /\ last.close < PullbackPrice
        /\ last.volume = 2 * BaseVolume
  /\ returned.verdict.direction = "NEUTRAL"

\* the volume of the top three levels of one side of the book
TopThreeVolume(levels) ==
  SumSeq([i \in 1..Min(3, Len(levels)) |-> levels[i][2]])

\* the structure of the orderbookSweepDetector verdict for the call on record;
\* scoreIs(score, x, total) relates the score to x / total = |imbalance| * 150
\* capped at 100
SweepVerdictFollows(scoreIs(_, _, _)) ==
  LET v == returned.verdict
      hasBook == "orderbook" \in call.data.present
      bids == IF hasBook THEN call.data.orderbook.bids ELSE <<>>
      asks == IF hasBook THEN call.data.orderbook.asks ELSE <<>>
      bidVol == TopThreeVolume(bids)
      askVol == TopThreeVolume(asks)
      total == bidVol + askVol
      defined == bids # <<>> /\ asks # <<>> /\ total > 0
      \* imbalance > 0.3 and imbalance < -0.3
      buying == defined /\ 10 * (bidVol - askVol) > 3 * total
      selling == defined /\ 10 * (bidVol - askVol) < -3 * total
  IN /\ v.direction = "LONG" <=> buying
     /\ v.direction = "SHORT" <=> selling
     /\ (~buying /\ ~selling) => (v.direction = "NEUTRAL" /\ v.score = 0)
     /\ (buying \/ selling) =>
          scoreIs(v.score, Min(100 * total, 150 * Abs(bidVol - askVol)), total)

ScoreIsRatio(score, x, total) == score * total = x
ScoreRoundsRatio(score, x, total) == 2 * Abs(score * total - x) <= total

\* C24: orderbookSweepDetector computes the imbalance
\* (bidVol - askVol)/(bidVol + askVol) over the top three levels of each side
\* and returns LONG iff imbalance > 0.3, SHORT iff imbalance < -0.3 and NEUTRAL
\* with score 0 otherwise (including |imbalance| exactly 0.3, an empty or
\* missing side, and zero total volume); a directional score is
\* min(100, |imbalance| * 150)
C24_SweepFollowsImbalance ==
  call.fn = "orderbookSweepDetector" => SweepVerdictFollows(ScoreIsRatio)

\* C24 as amended: the same, with the directional score being
\* min(100, |imbalance| * 150) rounded to the nearest integer
C24_SweepFollowsImbalanceRounded ==
  call.fn = "orderbookSweepDetector" => SweepVerdictFollows(ScoreRoundsRatio)

\* a book whose imbalance is exactly 0.3 (65 against 35) and stayed NEUTRAL
C24_Witness ==
  /\ call.fn = "orderbookSweepDetector"
  /\ "orderbook" \in call.data.present
  /\ TopThreeVolume(call.data.orderbook.bids) = 65
  /\ TopThreeVolume(call.data.orderbook.asks) = 35
  /\ returned.verdict.direction = "NEUTRAL"

----------------------------------------------------------------------------
(* C25: the agreement when nothing is tallied                              *)

\* C25: when no verdict counts toward either directional tally,
\* calculateDetectorAgreement reports majorityDirection = NEUTRAL,
\* majorityCount = 0 and agreementRatio = 0; majorityDirection is LONG or SHORT
\* only when the corresponding tally is at least 1
C25_NeutralWithoutTally ==
  (pc = "decided" /\ decision.status = "returned") =>
    LET agreement == decision.explain.agreement
    IN /\ (agreement.directions.LONG = 0 /\ agreement.directions.SHORT = 0) =>
            /\ agreement.majorityDirection = "NEUTRAL"
            /\ agreement.majorityCount = 0
            /\ impl = "full" => agreement.agreementRatio.n = 0
       /\ agreement.majorityDirection \in {"LONG", "SHORT"} =>
            agreement.directions[agreement.majorityDirection] >= 1

----------------------------------------------------------------------------
(* C26: the levels of a trade decision                                     *)

\* C26: on every trade decision the levels lie on the correct sides of a
\* positive entry with a strictly positive risk distance:
\* 0 < stopLoss < entry < takeProfit for LONG and
\* 0 < takeProfit < entry < stopLoss for SHORT, for any candle history
C26_LevelsOnCorrectSides ==
  (/\ pc = "decided"
   /\ decision.status = "returned"
   /\ decision.direction \in {"LONG", "SHORT"}) =>
    LET levels == decision.levels
    IN IF decision.direction = "LONG"
       THEN 0 < levels.sl /\ levels.sl < levels.entry /\ levels.entry < levels.tp
       ELSE 0 < levels.tp /\ levels.tp < levels.entry /\ levels.entry < levels.sl

----------------------------------------------------------------------------
(* analyzeSymbol                                                           *)

ResultKeys == {"symbol", "direction", "confidence", "reason", "explain"}
TradeKeys == {"symbol", "direction", "confidence", "entry", "sl", "tp", "rr",
              "positionSize", "maxLoss", "explain"}

\* what analyzeSymbol hands back, and whether it raised instead
SymbolResult(raised, keys, direction, confidence, reason, levels, positionData) ==
  [raised |-> raised, keys |-> keys, direction |-> direction,
   confidence |-> confidence, reason |-> reason,
   entry |-> levels.entry, sl |-> levels.sl, tp |-> levels.tp, rr |-> levels.rr,
   positionSize |-> positionData.size, maxLoss |-> positionData.maxLoss]

NoPosition == [kind |-> "none", size |-> 0, maxLoss |-> 0]

\* the message of the fault analyzeSymbol caught: the rejected fetch or what
\* analyze raised
FaultOf(fetchFailed, dec) == IF fetchFailed THEN "fetch failed" ELSE dec.error

\* analyzeSymbol letting the fault escape: no catch around its body
analyzeSymbolWithoutCatch(fetchFailed, dec, accountBalance, riskPercent) ==
  IF fetchFailed \/ dec.status = "raised"
  THEN SymbolResult(TRUE, {}, "none", 0, FaultOf(fetchFailed, dec), NoLevels, NoPosition)
  ELSE IF dec.direction \in {"NO_TRADE", "NEUTRAL"}
  THEN SymbolResult(FALSE, ResultKeys, dec.direction, dec.confidence, dec.reason,
                    NoLevels, NoPosition)
  ELSE SymbolResult(FALSE, TradeKeys, dec.direction, dec.confidence, "", dec.levels,
         calculatePositionSize(accountBalance, riskPercent, dec.levels.entry,
                               dec.levels.sl))

\* analyzeSymbol(symbol) from the outcome of its fetch and of ensemble.analyze:
\* fetchFailed when fetchMultiTimeframeData rejected, dec the Decision or the
\* fault of analyze.  Entry and stop are in 1/LevelScale, so the position size
\* is in LevelScale/SizeScale
analyzeSymbol(fetchFailed, dec, accountBalance, riskPercent) ==
  IF fetchFailed \/ dec.status = "raised"
  THEN SymbolResult(FALSE, ResultKeys, "NO_TRADE", 0,
                    "Analysis error: " \o FaultOf(fetchFailed, dec), NoLevels, NoPosition)
  ELSE IF dec.direction \in {"NO_TRADE", "NEUTRAL"}
  THEN SymbolResult(FALSE, ResultKeys, dec.direction, dec.confidence, dec.reason,
                    NoLevels, NoPosition)
  ELSE SymbolResult(FALSE, TradeKeys, dec.direction, dec.confidence, "", dec.levels,
         calculatePositionSize(accountBalance, riskPercent, dec.levels.entry,
                               dec.levels.sl))

\* analyzeSymbol: fetchMultiTimeframeData rejects (its order book or ticker
\* fetch failed on every source), the catch builds the result
FetchFails ==
  /\ pc = "idle"
  /\ \E accountBalance \in BalanceInputs, riskPercent \in RiskPercentInputs :
       returned' = [kind |-> "result", fetchFailed |-> TRUE,
                    accountBalance |-> accountBalance, riskPercent |-> riskPercent,
                    result |-> analyzeSymbol(TRUE, decision, accountBalance, riskPercent)]
  /\ pc' = "reported"
  /\ UNCHANGED <<botVars, impl, config, hour, data, detectorResults, decision, call, dataVars>>

\* analyzeSymbol from the return of ensemble.analyze to its own return;
\* ACCOUNT_BALANCE and RISK_PERCENT are read from the environment
AnalyzeSymbolReturns ==
  /\ pc = "decided"
  /\ \E accountBalance \in BalanceInputs, riskPercent \in RiskPercentInputs :
       returned' = [kind |-> "result", fetchFailed |-> FALSE,
                    accountBalance |-> accountBalance, riskPercent |-> riskPercent,
                    result |-> analyzeSymbol(FALSE, decision, accountBalance, riskPercent)]
  /\ pc' = "reported"
  /\ UNCHANGED <<botVars, impl, config, hour, data, detectorResults, decision, call, dataVars>>

\* the caller took the result; the next analyzeSymbol call starts from nothing
ResultReported ==
  /\ pc = "reported"
  /\ pc' = "idle"
  /\ data' = NoSnapshot
  /\ detectorResults' = <<>>
  /\ decision' = NoDecision
  /\ hour' = 0
  /\ returned' = NoReturn
  /\ UNCHANGED <<botVars, impl, config, call, dataVars>>

InitSymbol == Init

NextSymbol ==
  FetchSnapshot \/ FetchFails \/ RunAllDetectors \/ AnalyzeSubmitted
    \/ AnalyzeSymbolReturns \/ ResultReported

SpecSymbol == InitSymbol /\ [][NextSymbol]_vars

----------------------------------------------------------------------------
(* C27: analyzeSymbol                                                      *)

\* C27: analyzeSymbol never raises: if data acquisition, detection,
\* aggregation or position sizing fails, it returns a result with
\* direction = NO_TRADE, confidence = 0 and the fault as reason; and whenever
\* it returns LONG or SHORT the result carries entry, sl, tp, rr, positionSize
\* and maxLoss taken from that Decision's levels
C27_AnalyzeSymbolNeverRaises ==
  pc = "reported" =>
    LET result == returned.result
        failed == returned.fetchFailed \/ decision.status = "raised"
    IN /\ ~result.raised
       /\ failed =>
            /\ result.direction = "NO_TRADE"
            /\ result.confidence = 0
            /\ result.reason = "Analysis error: " \o FaultOf(returned.fetchFailed, decision)
       /\ result.direction \in {"LONG", "SHORT"} =>
            LET positionData ==
                  calculatePositionSize(returned.accountBalance, returned.riskPercent,
                                        decision.levels.entry, decision.levels.sl)
            IN /\ ~failed
               /\ result.direction = decision.direction
               /\ {"entry", "sl", "tp", "rr", "positionSize", "maxLoss"} \subseteq result.keys
               /\ result.entry = decision.levels.entry
               /\ result.sl = decision.levels.sl
               /\ result.tp = decision.levels.tp
               /\ result.rr = decision.levels.rr
               /\ result.positionSize = positionData.size
               /\ result.maxLoss = positionData.maxLoss

\* analyze raised on a fetched snapshot and analyzeSymbol returned NO_TRADE
C27_Witness ==
  /\ pc = "reported"
  /\ decision.status = "raised"
  /\ returned.result.direction = "NO_TRADE"

\* ---------------------------------------------------------------------------
\* The Telegram command handlers: /start, /key and /createkey.
\* ---------------------------------------------------------------------------

\* the Telegram users who write to the bot, each in a private chat (chat.id = from.id)
MaxUsers == 2
Users == 1..MaxUsers

\* ADMIN_IDS: the users with admin privileges
ADMIN_IDS == {1}

isAdmin(user) == user \in ADMIN_IDS

\* the key types an admin may type after /createkey; "1year" is not a valid one
TypedKeyTypes == {"1week", "forever", "1year"}
validTypes == {"1week", "1month", "3month", "forever"}

\* calculateKeyExpiry(type) is a date for the three timed types, null for 'forever'
calculateKeyExpiry(type) == IF type \in {"1week", "1month", "3month"} THEN "date" ELSE "null"

\* the position of chatId in the insertion-ordered Map subscribedUsers, 0 if absent
MapIndex(map, chatId) ==
  IF \E i \in 1..Len(map) : map[i].chatId = chatId
    THEN CHOOSE i \in 1..Len(map) : map[i].chatId = chatId
    ELSE 0

\* Map.prototype.set: an existing key keeps its position, a new key is appended
MapSet(map, chatId, entry) ==
  IF MapIndex(map, chatId) = 0
    THEN Append(map, entry)
    ELSE [map EXCEPT ![MapIndex(map, chatId)] = entry]

\* Map.prototype.delete
MapDelete(map, chatId) == SelectSeq(map, LAMBDA e : e.chatId # chatId)

Reply(text) == [kind |-> "reply", text |-> text]

\* bot.onText(/\/start/): an admin is subscribed at once, anyone else is told to use /key
StartCommand ==
  \E user \in Users :
    LET chatId == user
        adminData == [chatId |-> chatId, userId |-> user, keyUsed |-> "", isAdmin |-> TRUE]
    IN /\ call' = [fn |-> "/start", from |-> user]
       /\ IF isAdmin(user)
            THEN /\ subscribedUsers' = MapSet(subscribedUsers, chatId, adminData)
                 /\ returned' = Reply("Welcome Admin")
            ELSE /\ subscribedUsers' = subscribedUsers
                 /\ returned' = Reply("You need an activation key")
       /\ UNCHANGED <<activationKeys, isAutoAnalysisRunning, autoRuns, broadcasts>>
       /\ UNCHANGED <<impl, config, hour, data, detectorResults, decision, pc, dataVars>>

\* bot.onText(/\/createkey (.+)/): generateKey() is 16 random characters, whatever the
\* keys already in activationKeys, and activationKeys.set overwrites
CreateKeyCommand ==
  \E user \in Users, type \in TypedKeyTypes :
    /\ call' = [fn |-> "/createkey", from |-> user, type |-> type]
    /\ IF ~isAdmin(user)
         THEN /\ returned' = Reply("You do not have permission to use this command!")
              /\ activationKeys' = activationKeys
         ELSE IF type \notin validTypes
           THEN /\ returned' = Reply("Invalid key type!")
                /\ activationKeys' = activationKeys
           ELSE \E key \in KeySpace :
                  /\ activationKeys' =
                       [activationKeys EXCEPT
                          ![key] = [exists |-> TRUE, type |-> type, expired |-> FALSE,
                                    used |-> FALSE, usedBy |-> 0]]
                  /\ returned' = Reply("Key created successfully!")
    /\ UNCHANGED <<subscribedUsers, isAutoAnalysisRunning, autoRuns, broadcasts>>
    /\ UNCHANGED <<impl, config, hour, data, detectorResults, decision, pc, dataVars>>

\* the replies of /key that refuse the key
KeyRejections ==
  {"Activation key does not exist!", "Activation key has already been used!",
   "Activation key has expired!"}

\* bot.onText(/\/key (.+)/)
KeyCommand ==
  \E user \in Users, key \in KeySpace :
    LET chatId == user
        keyInfo == activationKeys[key]
        userData == [chatId |-> chatId, userId |-> user, keyUsed |-> key, isAdmin |-> FALSE]
    IN /\ call' = [fn |-> "/key", from |-> user, key |-> key]
       /\ IF ~keyInfo.exists
            THEN /\ returned' = Reply("Activation key does not exist!")
                 /\ UNCHANGED <<activationKeys, subscribedUsers>>
            ELSE IF keyInfo.used
              THEN /\ returned' = Reply("Activation key has already been used!")
                   /\ UNCHANGED <<activationKeys, subscribedUsers>>
              ELSE IF calculateKeyExpiry(keyInfo.type) # "null" /\ keyInfo.expired
                THEN /\ returned' = Reply("Activation key has expired!")
                     /\ UNCHANGED <<activationKeys, subscribedUsers>>
                ELSE /\ activationKeys' =
                          [activationKeys EXCEPT ![key].used = TRUE, ![key].usedBy = user]
                     /\ subscribedUsers' = MapSet(subscribedUsers, chatId, userData)
                     /\ returned' = Reply("Activation successful!")
       /\ UNCHANGED <<isAutoAnalysisRunning, autoRuns, broadcasts>>
       /\ UNCHANGED <<impl, config, hour, data, detectorResults, decision, pc, dataVars>>

\* time passes keyInfo.expires of a timed key: new Date() > keyInfo.expires from now on
KeyExpires ==
  \E key \in KeySpace :
    /\ activationKeys[key].exists
    /\ calculateKeyExpiry(activationKeys[key].type) # "null"
    /\ ~activationKeys[key].expired
    /\ activationKeys' = [activationKeys EXCEPT ![key].expired = TRUE]
    /\ call' = [fn |-> "clock"]
    /\ returned' = NoReturn
    /\ UNCHANGED <<subscribedUsers, isAutoAnalysisRunning, autoRuns, broadcasts>>
    /\ UNCHANGED <<impl, config, hour, data, detectorResults, decision, pc, dataVars>>

\* the command handlers read neither the ensemble configuration nor the snapshot
InitKeys == Init /\ impl = "full" /\ config = EnsembleConfig(0, 0, <<>>)

NextKeys == StartCommand \/ CreateKeyCommand \/ KeyCommand \/ KeyExpires

SpecKeys == InitKeys /\ [][NextKeys]_vars

\* a key that is marked used stays marked used by the same user, so /key never
\* accepts it a second time
UsedKeyStaysUsed ==
  \A key \in KeySpace :
    activationKeys[key].used =>
      /\ activationKeys'[key].used
      /\ activationKeys'[key].usedBy = activationKeys[key].usedBy

\* a /key that was refused changed neither map
RejectedKeyChangesNothing ==
  (call'.fn = "/key" /\ returned'.kind = "reply" /\ returned'.text \in KeyRejections)
    => UNCHANGED <<activationKeys, subscribedUsers>>

\* every non-admin entry of subscribedUsers references a key marked used by that user,
\* and no two entries were activated with the same key
EntriesReferenceUsedKeys ==
  /\ \A i \in 1..Len(subscribedUsers) :
       ~subscribedUsers[i].isAdmin =>
         /\ subscribedUsers[i].keyUsed \in KeySpace
         /\ activationKeys[subscribedUsers[i].keyUsed].used
         /\ activationKeys[subscribedUsers[i].keyUsed].usedBy = subscribedUsers[i].userId
  /\ \A i, j \in 1..Len(subscribedUsers) :
       (i # j /\ ~subscribedUsers[i].isAdmin /\ ~subscribedUsers[j].isAdmin)
         => subscribedUsers[i].keyUsed # subscribedUsers[j].keyUsed

\* C29: an activation key activates at most one subscription: a key is accepted at
\* most once, a /key with an unknown, used or expired key leaves activationKeys and
\* subscribedUsers unchanged, and every non-admin entry of subscribedUsers references
\* a key marked used by that user.
C29_KeyActivatesOneSubscription ==
  /\ [][UsedKeyStaysUsed /\ RejectedKeyChangesNothing]_vars
  /\ []EntriesReferenceUsedKeys

\* ---------------------------------------------------------------------------
\* broadcastToAllUsers: one message to every subscriber, with retries.
\* ---------------------------------------------------------------------------

\* const maxRetries = 3
maxRetries == 3

\* what the promise of bot.sendMessage settles to
Resolved == [kind |-> "resolved"]
Rejected(statusCode) == [kind |-> "rejected", statusCode |-> statusCode]

\* err.response.statusCode of a rejected send: 403 (the user blocked the bot) or another
StatusCodes == {403, 500}

\* the mutant retries while retryCount <= maxRetries
\* while (retryCount < maxRetries && !sent)
ShouldRetryOnceMore(retryCount, sent) == retryCount <= maxRetries /\ ~sent

ShouldRetry(retryCount, sent) == retryCount < maxRetries /\ ~sent

\* the head of for (const [chatId, userData] of subscribedUsers): the iterator is
\* live, it yields the entry after the `next` it has passed or ends the loop; a new
\* visit starts with retryCount 0 and sent false, so its first bot.sendMessage is
\* called in the same turn
ForOfNext(bc, map) ==
  IF bc.next < Len(map)
    THEN [bc EXCEPT !.pc = "sending", !.next = @ + 1, !.chatId = map[bc.next + 1].chatId,
                    !.retryCount = 0, !.sent = FALSE, !.visited = @ + 1,
                    !.attempts = <<>>]
    ELSE [bc EXCEPT !.pc = "done", !.chatId = 0, !.retryCount = 0, !.sent = FALSE,
                    !.attempts = <<>>]

\* the head of the while loop, reached after an await or after the third failure
WhileLoop(bc, map) ==
  IF ShouldRetry(bc.retryCount, bc.sent)
    THEN [bc EXCEPT !.pc = "sending"]
    ELSE ForOfNext(bc, map)

\* an entry at position p left the Map: an iterator that has passed it is one
\* entry further back in the remaining list
IteratorAfterDelete(bc, p) ==
  IF p > 0 /\ bc.next >= p THEN [bc EXCEPT !.next = @ - 1] ELSE bc

\* a caller (the daily greeting, the manual broadcast, the auto analysis) calls
\* broadcastToAllUsers(message): it runs up to its first await
StartBroadcast(b) ==
  /\ broadcasts[b].pc = "idle"
  /\ broadcasts' = [broadcasts EXCEPT ![b] = ForOfNext(IdleBroadcast, subscribedUsers)]
  /\ call' = [fn |-> "broadcastToAllUsers", broadcast |-> b]
  /\ returned' = NoReturn
  /\ UNCHANGED <<activationKeys, subscribedUsers, isAutoAnalysisRunning, autoRuns>>
  /\ UNCHANGED <<impl, config, hour, data, detectorResults, decision, pc, dataVars>>

\* await bot.sendMessage(chatId, message) resolves: successCount++, sent = true, and
\* the 100 ms delay is awaited
SendResolves(b) ==
  /\ broadcasts[b].pc = "sending"
  /\ broadcasts' = [broadcasts EXCEPT ![b].pc = "delay", ![b].successCount = @ + 1,
                                      ![b].sent = TRUE,
                                      ![b].attempts = Append(@, "resolved")]
  /\ call' = [fn |-> "sendMessage", chatId |-> broadcasts[b].chatId, broadcast |-> b]
  /\ returned' = Resolved
  /\ UNCHANGED <<activationKeys, subscribedUsers, isAutoAnalysisRunning, autoRuns>>
  /\ UNCHANGED <<impl, config, hour, data, detectorResults, decision, pc, dataVars>>

\* await bot.sendMessage(chatId, message) rejects: retryCount++; at maxRetries the
\* subscriber counts as failed and is deleted on a 403, and the loops go on in the
\* same turn; below maxRetries the backoff is awaited
SendRejects(b) ==
  /\ broadcasts[b].pc = "sending"
  /\ \E statusCode \in StatusCodes :
       LET bc == broadcasts[b]
           caught == [bc EXCEPT !.retryCount = @ + 1,
                                !.attempts = Append(@, "rejected")]
           p == MapIndex(subscribedUsers, bc.chatId)
       IN /\ IF caught.retryCount >= maxRetries
               THEN IF statusCode = 403
                 THEN /\ subscribedUsers' = MapDelete(subscribedUsers, bc.chatId)
                      /\ broadcasts' =
                           [x \in Broadcasts |->
                              IF x = b
                                THEN WhileLoop(
                                       IteratorAfterDelete(
                                         [caught EXCEPT !.failCount = @ + 1], p),
                                       subscribedUsers')
                                ELSE IteratorAfterDelete(broadcasts[x], p)]
                 ELSE /\ subscribedUsers' = subscribedUsers
                      /\ broadcasts' =
                           [broadcasts EXCEPT
                              ![b] = WhileLoop([caught EXCEPT !.failCount = @ + 1],
                                               subscribedUsers)]
               ELSE /\ subscribedUsers' = subscribedUsers
                    /\ broadcasts' = [broadcasts EXCEPT ![b] = [caught EXCEPT !.pc = "backoff"]]
          /\ call' = [fn |-> "sendMessage", chatId |-> bc.chatId, broadcast |-> b]
          /\ returned' = Rejected(statusCode)
  /\ UNCHANGED <<activationKeys, isAutoAnalysisRunning, autoRuns>>
  /\ UNCHANGED <<impl, config, hour, data, detectorResults, decision, pc, dataVars>>

\* the timer of the 100 ms delay or of the backoff fires: back to the while loop
TimerFires(b) ==
  /\ broadcasts[b].pc \in {"delay", "backoff"}
  /\ broadcasts' = [broadcasts EXCEPT ![b] = WhileLoop(broadcasts[b], subscribedUsers)]
  /\ call' = [fn |-> "setTimeout", broadcast |-> b]
  /\ returned' = NoReturn
  /\ UNCHANGED <<activationKeys, subscribedUsers, isAutoAnalysisRunning, autoRuns>>
  /\ UNCHANGED <<impl, config, hour, data, detectorResults, decision, pc, dataVars>>

\* the steps of broadcast b after its call
BroadcastStep(b) == SendResolves(b) \/ SendRejects(b) \/ TimerFires(b)

\* the keys in the order an admin created them
KeyOrder ==
  CHOOSE s \in [1..Cardinality(KeySpace) -> KeySpace] : \A i, j \in DOMAIN s : s[i] = s[j] => i = j

\* the number of users among the first i of s that are no admins
KeyHolders(s, i) == Cardinality({j \in 1..i : ~isAdmin(s[j])})

\* the orders in which users have subscribed: an admin with /start, the others each
\* with /key and a key of their own
SubscriptionOrders ==
  {s \in UNION {[1..n -> Users] : n \in 0..MaxUsers} :
     /\ \A i, j \in DOMAIN s : s[i] = s[j] => i = j
     /\ KeyHolders(s, Len(s)) <= Cardinality(KeySpace)}

\* subscribedUsers after the users of s subscribed in this order
SubscribedIn(s) ==
  [i \in DOMAIN s |->
     IF isAdmin(s[i])
       THEN [chatId |-> s[i], userId |-> s[i], keyUsed |-> "", isAdmin |-> TRUE]
       ELSE [chatId |-> s[i], userId |-> s[i], keyUsed |-> KeyOrder[KeyHolders(s, i)],
             isAdmin |-> FALSE]]

\* activationKeys after the users of s subscribed in this order
KeysUsedIn(s) ==
  [k \in KeySpace |->
     IF \E i \in DOMAIN s : ~isAdmin(s[i]) /\ KeyOrder[KeyHolders(s, i)] = k
       THEN [exists |-> TRUE, type |-> "forever", expired |-> FALSE, used |-> TRUE,
             usedBy |-> s[CHOOSE i \in DOMAIN s :
                            ~isAdmin(s[i]) /\ KeyOrder[KeyHolders(s, i)] = k]]
       ELSE NoKey]

\* the bot with the subscribers of one of the orders, nothing else under way
InitBroadcast ==
  /\ \E s \in SubscriptionOrders :
       /\ subscribedUsers = SubscribedIn(s)
       /\ activationKeys = KeysUsedIn(s)
  /\ isAutoAnalysisRunning = FALSE
  /\ autoRuns = [i \in Invocations |-> IdleRun]
  /\ broadcasts = [b \in Broadcasts |-> IdleBroadcast]
  /\ impl = "full"
  /\ config = EnsembleConfig(0, 0, <<>>)
  /\ hour = 0
  /\ data = NoSnapshot
  /\ detectorResults = <<>>
  /\ decision = NoDecision
  /\ pc = "idle"
  /\ call = NoCall
  /\ returned = NoReturn
  /\ currentSourceIndex = 0
  /\ sourcesUp = Sources
  /\ requests = [c \in Callers |-> NoRequest]

NextBroadcast ==
  \/ \E b \in Broadcasts : StartBroadcast(b)
  \/ \E b \in Broadcasts : SendResolves(b)
  \/ \E b \in Broadcasts : SendRejects(b)
  \/ \E b \in Broadcasts : TimerFires(b)

SpecBroadcast == InitBroadcast /\ [][NextBroadcast]_vars

\* the promise of every send settles and every timer fires: a broadcast that can
\* take a step takes one
SpecBroadcastFair ==
  SpecBroadcast /\ \A b \in Broadcasts : WF_vars(BroadcastStep(b))

\* the sends of the visit under way: those settled and the one awaited
AttemptsMade(bc) == Len(bc.attempts) + (IF bc.pc = "sending" THEN 1 ELSE 0)

\* a visit has between 1 and 3 attempts, and a success is the last of them
AttemptsWithinLimits ==
  \A b \in Broadcasts :
    LET bc == broadcasts[b]
    IN bc.pc \in {"sending", "delay", "backoff"} =>
         /\ AttemptsMade(bc) >= 1
         /\ AttemptsMade(bc) <= 3
         /\ \A i \in 1..Len(bc.attempts) :
              bc.attempts[i] = "resolved" => (i = Len(bc.attempts) /\ bc.pc = "delay")

\* success + fail counts the visits that ended, all of them at the return
CountsMatchVisits ==
  \A b \in Broadcasts :
    LET bc == broadcasts[b]
    IN /\ bc.pc \in {"done", "delay"} => bc.successCount + bc.failCount = bc.visited
       /\ bc.pc \in {"sending", "backoff"} => bc.successCount + bc.failCount = bc.visited - 1

\* a subscriber leaves subscribedUsers only in the step in which the third send of
\* a visit to it is rejected with status 403
RemovedOnlyAfterThird403 ==
  \A chatId \in Users :
    (MapIndex(subscribedUsers, chatId) # 0 /\ MapIndex(subscribedUsers', chatId) = 0) =>
      /\ call'.fn = "sendMessage"
      /\ call'.chatId = chatId
      /\ returned' = Rejected(403)
      /\ broadcasts[call'.broadcast].pc = "sending"
      /\ broadcasts[call'.broadcast].chatId = chatId
      /\ Len(broadcasts[call'.broadcast].attempts) = 2

\* C30: broadcastToAllUsers terminates for any pattern of send failures: a visited
\* subscriber gets at least 1 and at most 3 send attempts, none after a success, the
\* returned success + fail is the number of subscribers visited, and a subscriber is
\* removed only when its third attempt failed with status 403.
C30_BroadcastTerminates ==
  /\ []AttemptsWithinLimits
  /\ []CountsMatchVisits
  /\ [][RemovedOnlyAfterThird403]_vars
  /\ \A b \in Broadcasts : (broadcasts[b].pc # "idle") ~> (broadcasts[b].pc = "done")

\* a broadcast returned {success: 1, fail: 1} after two visits, and the subscriber
\* that failed was removed after its third 403
C30_Witness ==
  \E b \in Broadcasts :
    /\ broadcasts[b].pc = "done"
    /\ broadcasts[b].visited = 2
    /\ broadcasts[b].successCount = 1
    /\ broadcasts[b].failCount = 1
    /\ Len(subscribedUsers) = 1
    /\ returned = Rejected(403)

\* ---------------------------------------------------------------------------
\* runAutoAnalysis: the scheduled scan of TARGET_COINS.
\* ---------------------------------------------------------------------------

\* TARGET_COINS, here the first two of the default list
TARGET_COINS == <<"BTCUSDT", "ETHUSDT">>

\* process.env.MIN_CONFIDENCE || 60
MinSignalConfidence == 60

\* getVietnamTime() at an invocation: hours and minutes around the two ends of the
\* trading hours
ClockTimes == {<<3, 59>>, <<4, 0>>, <<23, 30>>, <<23, 31>>}

\* the negation of currentHour < 4 || (currentHour === 23 && currentMinute > 30)
InTradingHours(currentHour, currentMinute) ==
  ~(currentHour < 4 \/ (currentHour = 23 /\ currentMinute > 30))

\* the mutant never finds a run under way
\* if (isAutoAnalysisRunning) return
AlreadyRunningIgnored(running) == FALSE

AlreadyRunning(running) == running

\* what await analyzeSymbol(coin) resolves to, as far as runAutoAnalysis reads it
AnalysisResults ==
  {[direction |-> d, confidence |-> c] :
     d \in {"LONG", "SHORT", "NEUTRAL", "NO_TRADE"},
     c \in {MinSignalConfidence - 1, MinSignalConfidence}}

\* the result is a signal to broadcast
IsSignal(result) ==
  /\ result.direction # "NEUTRAL"
  /\ result.direction # "NO_TRADE"
  /\ result.confidence >= MinSignalConfidence

\* an invocation that returned: the start-up timeout fires once, the interval again
ReturnedRun(i) == IF i = "startup" THEN [IdleRun EXCEPT !.pc = "fired"] ELSE IdleRun

\* the head of for (const coin of TARGET_COINS), reached at the start, at the end
\* of an iteration and by continue: the next coin and its rate-limiting delay, or
\* the end of the loop and the finally block, which clears the flag
ForNextCoin(i, run) ==
  IF run.coin < Len(TARGET_COINS)
    THEN [run |-> [pc |-> "delay", coin |-> run.coin + 1,
                   analyzedCount |-> run.analyzedCount + 1],
          running |-> TRUE]
    ELSE [run |-> ReturnedRun(i), running |-> FALSE]

\* a timer calls runAutoAnalysis(): the three checks, then the flag is set and the
\* first iteration runs up to its delay, all in one turn; the interval also fires
\* while the run it started is under way
Invoke(i) ==
  /\ \/ autoRuns[i].pc = "idle"
     \/ i = "interval" /\ AlreadyRunning(isAutoAnalysisRunning)
  /\ \E now \in ClockTimes :
       /\ call' = [fn |-> "runAutoAnalysis", invocation |-> i, now |-> now]
       /\ IF AlreadyRunning(isAutoAnalysisRunning)
            THEN /\ returned' = [kind |-> "return", reason |-> "already running",
                                 analyzedCount |-> 0]
                 /\ autoRuns' = IF autoRuns[i].pc = "idle"
                                  THEN [autoRuns EXCEPT ![i] = ReturnedRun(i)]
                                  ELSE autoRuns
                 /\ UNCHANGED isAutoAnalysisRunning
            ELSE IF ~InTradingHours(now[1], now[2])
              THEN /\ returned' = [kind |-> "return", reason |-> "outside trading hours",
                                   analyzedCount |-> 0]
                   /\ autoRuns' = [autoRuns EXCEPT ![i] = ReturnedRun(i)]
                   /\ UNCHANGED isAutoAnalysisRunning
              ELSE IF Len(subscribedUsers) = 0
                THEN /\ returned' = [kind |-> "return", reason |-> "no subscribed users",
                                     analyzedCount |-> 0]
                     /\ autoRuns' = [autoRuns EXCEPT ![i] = ReturnedRun(i)]
                     /\ UNCHANGED isAutoAnalysisRunning
                ELSE /\ returned' = NoReturn
                     /\ autoRuns' = [autoRuns EXCEPT ![i] = ForNextCoin(i, IdleRun).run]
                     /\ isAutoAnalysisRunning' = ForNextCoin(i, IdleRun).running
  /\ UNCHANGED <<activationKeys, subscribedUsers, broadcasts>>
  /\ UNCHANGED <<impl, config, hour, data, detectorResults, decision, pc, dataVars>>

\* the rate-limiting delay is over: analyzeSymbol(coin) is called
DelayOver(i) ==
  /\ autoRuns[i].pc = "delay"
  /\ autoRuns' = [autoRuns EXCEPT ![i].pc = "analyzing"]
  /\ call' = [fn |-> "analyzeSymbol", invocation |-> i, coin |-> TARGET_COINS[autoRuns[i].coin]]
  /\ returned' = NoReturn
  /\ UNCHANGED <<activationKeys, subscribedUsers, isAutoAnalysisRunning, broadcasts>>
  /\ UNCHANGED <<impl, config, hour, data, detectorResults, decision, pc, dataVars>>

\* await analyzeSymbol(coin) settles: a signal is broadcast, any other result goes
\* on with the next coin, and so does an error, caught as coinError
AnalysisSettles(i) ==
  /\ autoRuns[i].pc = "analyzing"
  /\ call' = [fn |-> "analyzeSymbol", invocation |-> i, coin |-> TARGET_COINS[autoRuns[i].coin]]
  /\ \/ \E result \in AnalysisResults :
          /\ returned' = [kind |-> "resolved", result |-> result]
          /\ IF IsSignal(result)
               THEN /\ autoRuns' = [autoRuns EXCEPT ![i].pc = "broadcasting"]
                    /\ UNCHANGED isAutoAnalysisRunning
               ELSE /\ autoRuns' = [autoRuns EXCEPT ![i] = ForNextCoin(i, autoRuns[i]).run]
                    /\ isAutoAnalysisRunning' = ForNextCoin(i, autoRuns[i]).running
     \/ /\ returned' = [kind |-> "rejected"]
        /\ autoRuns' = [autoRuns EXCEPT ![i] = ForNextCoin(i, autoRuns[i]).run]
        /\ isAutoAnalysisRunning' = ForNextCoin(i, autoRuns[i]).running
  /\ UNCHANGED <<activationKeys, subscribedUsers, broadcasts>>
  /\ UNCHANGED <<impl, config, hour, data, detectorResults, decision, pc, dataVars>>

\* await broadcastToAllUsers(msg) settles: it returns, having deleted the
\* subscribers whose third send was rejected with 403, and the 3 s delay is
\* awaited; or it fails, which coinError catches
BroadcastSettles(i) ==
  /\ autoRuns[i].pc = "broadcasting"
  /\ call' = [fn |-> "broadcastToAllUsers", invocation |-> i]
  /\ \/ \E blocked \in SUBSET Users :
          /\ subscribedUsers' = SelectSeq(subscribedUsers, LAMBDA e : e.chatId \notin blocked)
          /\ returned' = [kind |-> "resolved"]
          /\ autoRuns' = [autoRuns EXCEPT ![i].pc = "signal delay"]
          /\ UNCHANGED isAutoAnalysisRunning
     \/ /\ returned' = [kind |-> "rejected"]
        /\ autoRuns' = [autoRuns EXCEPT ![i] = ForNextCoin(i, autoRuns[i]).run]
        /\ isAutoAnalysisRunning' = ForNextCoin(i, autoRuns[i]).running
        /\ UNCHANGED subscribedUsers
  /\ UNCHANGED <<activationKeys, broadcasts>>
  /\ UNCHANGED <<impl, config, hour, data, detectorResults, decision, pc, dataVars>>

\* the 3 s delay after a broadcast is over: the next coin
SignalDelayOver(i) ==
  /\ autoRuns[i].pc = "signal delay"
  /\ autoRuns' = [autoRuns EXCEPT ![i] = ForNextCoin(i, autoRuns[i]).run]
  /\ isAutoAnalysisRunning' = ForNextCoin(i, autoRuns[i]).running
  /\ call' = [fn |-> "setTimeout", invocation |-> i]
  /\ returned' = NoReturn
  /\ UNCHANGED <<activationKeys, subscribedUsers, broadcasts>>
  /\ UNCHANGED <<impl, config, hour, data, detectorResults, decision, pc, dataVars>>

\* the steps of a run after the turn that set the flag
RunStep(i) == DelayOver(i) \/ AnalysisSettles(i) \/ BroadcastSettles(i) \/ SignalDelayOver(i)

NextAuto ==
  \/ \E i \in Invocations : Invoke(i)
  \/ \E i \in Invocations : DelayOver(i)
  \/ \E i \in Invocations : AnalysisSettles(i)
  \/ \E i \in Invocations : BroadcastSettles(i)
  \/ \E i \in Invocations : SignalDelayOver(i)
  \/ StartCommand

SpecAuto == InitBroadcast /\ [][NextAuto]_vars

\* every timer fires and every awaited promise settles: a run that can take a step
\* takes one
SpecAutoFair == SpecAuto /\ \A i \in Invocations : WF_vars(RunStep(i))

\* invocation i is past its checks and has not returned
InProgress(i) == autoRuns[i].pc \notin {"idle", "fired"}

\* at most one run is in progress, and the flag is set exactly while one is
OneRunAtATime ==
  /\ \A i, j \in Invocations : (InProgress(i) /\ InProgress(j)) => i = j
  /\ isAutoAnalysisRunning <=> \E i \in Invocations : InProgress(i)

\* an invocation while the flag is set returns without analyzing a coin; one while
\* the flag is clear, inside trading hours and with a subscriber, starts a run
InvocationChecks ==
  (call'.fn = "runAutoAnalysis" /\ <<call', autoRuns'>> # <<call, autoRuns>>) =>
    /\ isAutoAnalysisRunning =>
         /\ returned'.kind = "return"
         /\ returned'.analyzedCount = 0
         /\ \A j \in Invocations :
              /\ InProgress(j) => autoRuns'[j] = autoRuns[j]
              /\ ~InProgress(j) => autoRuns'[j].pc \in {"idle", "fired"}
    /\ (/\ ~isAutoAnalysisRunning
        /\ InTradingHours(call'.now[1], call'.now[2])
        /\ Len(subscribedUsers) >= 1) =>
         /\ isAutoAnalysisRunning'
         /\ autoRuns'[call'.invocation].pc = "delay"
         /\ autoRuns'[call'.invocation].analyzedCount = 1

\* C28: at most one auto-analysis run is in progress at any time: an invocation that
\* starts while isAutoAnalysisRunning is true returns without analyzing any coin,
\* and every run that set the flag eventually clears it, also when a coin analysis
\* or a broadcast fails, so that a later invocation inside trading hours with a
\* subscriber runs.
C28_OneRunAtATime ==
  /\ []OneRunAtATime
  /\ [][InvocationChecks]_vars
  /\ isAutoAnalysisRunning ~> ~isAutoAnalysisRunning

\* an invocation found the flag set and returned without analyzing a coin, while
\* the run under way is at its second coin
C28_Witness ==
  /\ isAutoAnalysisRunning
  /\ call.fn = "runAutoAnalysis"
  /\ returned = [kind |-> "return", reason |-> "already running", analyzedCount |-> 0]
  /\ \E i \in Invocations : InProgress(i) /\ autoRuns[i].coin = 2

====
